---- MODULE Spec2Model ----
(***************************************************************************)
(* Tool connection and caching layer of agentflow (core/mcp.go):           *)
(*   - the cache key codec (GenerateCacheKey and helpers),                 *)
(*   - realMCPManager, the connection manager,                             *)
(*   - realMCPCache / realMCPCacheManager, the result cache.                *)
(* Strings are sequences of code points, so that case folding, trimming,   *)
(* byte-wise sorting and concatenation are computed as the code does.      *)
(***************************************************************************)
EXTENDS Integers, Sequences, FiniteSets, TLC

VARIABLES
    kc,         \* key codec run: inputs and outputs of GenerateCacheKey
    pl,         \* ParseLLMToolCalls run: the text, the loop position, the calls found
    sq,         \* SequentialAgent run: the sub-agents, the states, the loop position
    gi,         \* mcpManagerInitialized, mcpManagerMutex, managers created, resets done
    rg,         \* realFunctionToolRegistry: the tools map and the last call made
    overtaken,  \* pairs <<u, v>>: u's InvalidateByPattern cleared the cache that v's
                \* ExecuteWithCache had missed in and not yet stored to
    config,     \* realMCPManager.config.Servers
    connected,  \* realMCPManager.connectedServers (the names mapped to true)
    tools,      \* realMCPManager.tools
    mu,         \* realMCPManager.mu: [writer, readers]
    th,         \* per goroutine: the running operation, its position and locals
    globalMCPManager,   \* the package-level manager: "nil" or "real"
    ccfg,       \* realMCPCacheManager.config
    cmCaches,   \* realMCPCacheManager.caches: "tool:server" -> cache object
    cmu,        \* realMCPCacheManager.mu
    heap,       \* the realMCPCache objects: [data, readers], readers hold c.mu.RLock
    now,        \* the clock read by time.Now and time.Since
    crashed,    \* the runtime has stopped the process (concurrent map access)
    nHits,      \* calls of ExecuteWithCache served from a cache so far
    nMisses     \* calls of ExecuteWithCache that went on to execute so far

keyVars == <<kc, pl, sq, gi, rg, overtaken>>
connVars == <<config, connected, tools, mu>>
cacheVars == <<globalMCPManager, ccfg, cmCaches, cmu, heap, now, crashed, nHits, nMisses>>
vars == <<kc, pl, sq, gi, rg, overtaken, config, connected, tools, mu, th, globalMCPManager, ccfg, cmCaches, cmu,
          heap, now, crashed, nHits, nMisses>>

(***************************************************************************)
(* Bounds                                                                  *)
(***************************************************************************)
MaxArgs == 2
MaxCalls == 3
MaxTime == 2
MaxFrags == 4
MaxAgents == 3
MaxObjects == 3
MaxShutdowns == 2
MaxTools == 3

(***************************************************************************)
(* Strings                                                                 *)
(***************************************************************************)
\* "a", "A", " a", "a ", "b", "B"
KeyStrings == { <<97>>, <<65>>, <<32, 97>>, <<97, 32>>, <<98>>, <<66>> }
\* "x", " x", "x ", "y"
ValStrings == { <<120>>, <<32, 120>>, <<120, 32>>, <<121>> }

\* unicode.IsSpace on the Latin-1 range
IsSpace(c) == c \in {9, 10, 11, 12, 13, 32, 133, 160}

RECURSIVE TrimLeft(_)
TrimLeft(s) ==
    IF s = <<>> THEN s
    ELSE IF IsSpace(Head(s)) THEN TrimLeft(Tail(s)) ELSE s

RECURSIVE TrimRight(_)
TrimRight(s) ==
    IF s = <<>> THEN s
    ELSE IF IsSpace(s[Len(s)]) THEN TrimRight(SubSeq(s, 1, Len(s) - 1)) ELSE s

TrimSpace(s) == TrimRight(TrimLeft(s))

ToLower(s) == [i \in 1..Len(s) |-> IF s[i] \in 65..90 THEN s[i] + 32 ELSE s[i]]

\* byte-wise string order used by sort.Strings
RECURSIVE StrLess(_, _)
StrLess(a, b) ==
    IF b = <<>> THEN FALSE
    ELSE IF a = <<>> THEN TRUE
    ELSE IF Head(a) < Head(b) THEN TRUE
    ELSE IF Head(a) > Head(b) THEN FALSE
    ELSE StrLess(Tail(a), Tail(b))

RECURSIVE InsertSorted(_, _)
InsertSorted(k, s) ==
    IF s = <<>> THEN <<k>>
    ELSE IF StrLess(Head(s), k) THEN <<Head(s)>> \o InsertSorted(k, Tail(s))
    ELSE <<k>> \o s

RECURSIVE SortStrings(_)
SortStrings(s) ==
    IF s = <<>> THEN <<>> ELSE InsertSorted(Head(s), SortStrings(Tail(s)))

\* the orders in which a Go map with key set S may be enumerated
Enumerations(S) ==
    { o \in [1..Cardinality(S) -> S] : \A i, j \in DOMAIN o : i # j => o[i] # o[j] }

(***************************************************************************)
(* Key codec                                                               *)
(***************************************************************************)
\* normalizeArgs: ord is the order in which range enumerates args
RECURSIVE normalizeArgsFrom(_, _, _)
normalizeArgsFrom(args, ord, normalized) ==
    IF ord = <<>> THEN normalized
    ELSE LET k  == Head(ord)
             nk == ToLower(TrimSpace(k))
             nv == TrimSpace(args[k])
         IN normalizeArgsFrom(args, Tail(ord),
                [x \in (DOMAIN normalized) \cup {nk} |->
                    IF x = nk THEN nv ELSE normalized[x]])

normalizeArgs(args, ord) == normalizeArgsFrom(args, ord, <<>>)

\* sha256 + hex + [:16], idealised as an injective function of the bytes written
Sha256Hex16(bytes) == bytes

RECURSIVE HashInput(_, _)
HashInput(args, keys) ==
    IF keys = <<>> THEN <<>>
    ELSE Head(keys) \o <<61>> \o args[Head(keys)] \o <<124>> \o HashInput(args, Tail(keys))

\* generateArgHash: ord is the order in which range enumerates args
generateArgHash(args, ord) == Sha256Hex16(HashInput(args, SortStrings(ord)))

GenerateCacheKey(toolName, serverName, args, ord) ==
    [ToolName   |-> toolName,
     ServerName |-> serverName,
     Args       |-> normalizeArgs(args, ord),
     Hash       |-> generateArgHash(args, ord)]

keyToString(key) == key.ToolName \o <<58>> \o key.ServerName \o <<58>> \o key.Hash


(***************************************************************************)
(* Names used by the model: "ta", "tb", "s1", "s2", "s3", "s4", "sx"       *)
(***************************************************************************)
ta == <<116, 97>>
tb == <<116, 98>>
s1 == <<115, 49>>
s2 == <<115, 50>>
s3 == <<115, 51>>
s4 == <<115, 52>>
sx == <<115, 120>>

Threads == {"t1", "t2"}

(***************************************************************************)
(* GenerateCacheKey as a pure function: kc.a is an argument map, kc.b a    *)
(* map for the same logical call written differently                       *)
(***************************************************************************)
ArgMaps ==
    UNION { [D -> ValStrings] : D \in { X \in SUBSET KeyStrings : Cardinality(X) <= MaxArgs } }

NoKey == [ToolName |-> <<>>, ServerName |-> <<>>, Args |-> <<>>, Hash |-> <<>>]

KcIdle == [phase |-> "off", a |-> <<>>, b |-> <<>>, ordA |-> <<>>, ordB |-> <<>>,
           keyA |-> NoKey, keyB |-> NoKey]

\* the map m with key k renamed to k2
RenameKey(m, k, k2) ==
    [x \in ((DOMAIN m) \ {k}) \cup {k2} |-> IF x = k2 THEN m[k] ELSE m[x]]

KeyChangeCase ==
    /\ kc.phase = "input"
    /\ \E k \in DOMAIN kc.b, k2 \in KeyStrings \ DOMAIN kc.b :
        /\ ToLower(k2) = ToLower(k)
        /\ kc' = [kc EXCEPT !.b = RenameKey(kc.b, k, k2),
                            !.ordB = [i \in DOMAIN kc.ordB |->
                                        IF kc.ordB[i] = k THEN k2 ELSE kc.ordB[i]]]
    /\ UNCHANGED <<pl, sq, gi, rg, overtaken, connVars, cacheVars, th>>

KeyChangeSpace ==
    /\ kc.phase = "input"
    /\ \E k \in DOMAIN kc.b, k2 \in KeyStrings \ DOMAIN kc.b :
        /\ TrimSpace(k2) = TrimSpace(k)
        /\ kc' = [kc EXCEPT !.b = RenameKey(kc.b, k, k2),
                            !.ordB = [i \in DOMAIN kc.ordB |->
                                        IF kc.ordB[i] = k THEN k2 ELSE kc.ordB[i]]]
    /\ UNCHANGED <<pl, sq, gi, rg, overtaken, connVars, cacheVars, th>>

ValueChangeSpace ==
    /\ kc.phase = "input"
    /\ \E k \in DOMAIN kc.b, v2 \in ValStrings :
        /\ v2 # kc.b[k]
        /\ TrimSpace(v2) = TrimSpace(kc.b[k])
        /\ kc' = [kc EXCEPT !.b = [kc.b EXCEPT ![k] = v2]]
    /\ UNCHANGED <<pl, sq, gi, rg, overtaken, connVars, cacheVars, th>>

KeyReorder ==
    /\ kc.phase = "input"
    /\ \E o \in Enumerations(DOMAIN kc.b) :
        /\ o # kc.ordB
        /\ kc' = [kc EXCEPT !.ordB = o]
    /\ UNCHANGED <<pl, sq, gi, rg, overtaken, connVars, cacheVars, th>>

KeyGenerate ==
    /\ kc.phase = "input"
    /\ kc' = [kc EXCEPT !.phase = "done",
                        !.keyA = GenerateCacheKey(ta, s1, kc.a, kc.ordA),
                        !.keyB = GenerateCacheKey(ta, s1, kc.b, kc.ordB)]
    /\ UNCHANGED <<pl, sq, gi, rg, overtaken, connVars, cacheVars, th>>

(***************************************************************************)
(* realMCPManager                                                          *)
(***************************************************************************)
Server(n, ty, en) == [Name |-> n, Type |-> ty, Enabled |-> en]

\* the server lists a manager is constructed with in this model
Configs ==
    { <<>>,
      <<Server(s1, "tcp", TRUE), Server(s2, "tcp", TRUE)>>,
      <<Server(s1, "tcp", TRUE), Server(s3, "stdio", TRUE), Server(s4, "tcp", FALSE)>> }

\* names passed to the per-server operations; sx is configured nowhere
ServerArgs == {config[j].Name : j \in DOMAIN config} \cup {sx}
ToolArgs == {ta, tb}

\* what a reachable server answers to the tool-list request
ListTools(serverName) ==
    IF serverName = s1 THEN <<ta>>
    ELSE IF serverName = s2 THEN <<ta, tb>>
    ELSE <<>>

IdleThread ==
    [op |-> "none", pc |-> "idle", srv |-> <<>>, tool |-> <<>>, i |-> 0, n |-> 0,
     err |-> "none", res |-> <<>>, found |-> <<>>,
     xsrv |-> <<>>, key |-> <<>>, cache |-> 0,
     dial |-> "none", old |-> <<>>, during |-> {}, exec |-> FALSE,
     answered |-> <<>>, ctx |-> "live",
     pattern |-> <<>>, todo |-> {}, cleared |-> {}, wiped |-> {}, remote |-> "none",
     arg |-> <<>>]

NoLock == [writer |-> "none", readers |-> {}]

\* sync.RWMutex: Lock needs no writer and no reader, RLock needs no writer
CanLock(l) == l.writer = "none" /\ l.readers = {}
CanRLock(l) == l.writer = "none"

\* index of the first configured server with that name, 0 if there is none
FindServer(name) ==
    IF \E j \in DOMAIN config : config[j].Name = name
    THEN CHOOSE j \in DOMAIN config :
            /\ config[j].Name = name
            /\ \A h \in DOMAIN config : config[h].Name = name => j <= h
    ELSE 0

\* index of the first enabled server at or after i, Len(config) + 1 if none
NextEnabled(i) ==
    IF \E j \in i..Len(config) : config[j].Enabled
    THEN CHOOSE j \in i..Len(config) :
            /\ config[j].Enabled
            /\ \A h \in i..Len(config) : config[h].Enabled => j <= h
    ELSE Len(config) + 1

\* value of the map function m extended or overwritten at key k
MapSet(m, k, v) == [x \in (DOMAIN m) \cup {k} |-> IF x = k THEN v ELSE m[x]]


\* the thread record after its operation returned: position, error, result
Returned(thr, e, r) == [thr EXCEPT !.pc = "done", !.err = e, !.res = r]

(* Connect, lines 1227-1263.  The write lock is taken first and held over  *)
(* the dial; ConnectEnter is the Lock call, ConnectDial the rest.          *)
\* mutant: the server is marked connected before the dial's outcome is known
ConnectResultMarksBeforeDial(j, dialOk, serverName, conn) ==
    IF j = 0 THEN [err |-> "not_configured", conn |-> conn]
    ELSE IF config[j].Type = "tcp"
         THEN [err |-> IF dialOk THEN "none" ELSE "connection_failed",
               conn |-> conn \cup {serverName}]
         ELSE [err |-> "unsupported_type", conn |-> conn]

ConnectResult(j, dialOk, serverName, conn) ==
    IF j = 0 THEN [err |-> "not_configured", conn |-> conn]
    ELSE IF config[j].Type = "tcp"
         THEN IF dialOk
              THEN [err |-> "none", conn |-> conn \cup {serverName}]
              ELSE [err |-> "connection_failed", conn |-> conn]
         ELSE [err |-> "unsupported_type", conn |-> conn]

\* the ctx argument: live, or cancelled before the call
Contexts == {"live", "cancelled"}

ConnectEnter(t) ==
    /\ CanLock(mu)
    /\ \/ /\ th[t].pc = "idle"
          /\ \E s \in ServerArgs, c \in Contexts :
                th' = [th EXCEPT ![t] = [IdleThread EXCEPT
                            !.op = "Connect", !.pc = "dialing", !.srv = s, !.ctx = c]]
       \/ /\ th[t].pc = "connect"
          /\ th' = [th EXCEPT ![t].pc = "dialing", ![t].dial = "none"]
    /\ mu' = [mu EXCEPT !.writer = t]
    /\ UNCHANGED <<keyVars, cacheVars, config, connected, tools>>

ConnectDial(t) ==
    /\ th[t].pc = "dialing"
    /\ \E dialOk \in BOOLEAN :
        LET j == FindServer(th[t].srv)
            r == ConnectResult(j, dialOk, th[t].srv, connected)
            d == IF j # 0 /\ config[j].Type = "tcp"
                 THEN (IF dialOk THEN "ok" ELSE "fail") ELSE "none"
        IN /\ connected' = r.conn
           /\ th' = [th EXCEPT ![t].err = r.err, ![t].dial = d, ![t].ctx = "live",
                        ![t].pc = IF th[t].op = "Connect" THEN "done" ELSE "ret"]
    /\ mu' = [mu EXCEPT !.writer = "none"]
    /\ UNCHANGED <<keyVars, cacheVars, config, tools>>

(* Disconnect, lines 1265-1274 *)
\* mutant: the whole bookkeeping is dropped
DisconnectResultDropsAll(conn, serverName) == {}

\* line 1270: delete(m.connectedServers, serverName)
DisconnectResult(conn, serverName) == conn \ {serverName}

Disconnect(t) ==
    /\ th[t].pc = "idle"
    /\ CanLock(mu)
    /\ \E s \in ServerArgs :
        /\ connected' = DisconnectResult(connected, s)
        /\ th' = [th EXCEPT ![t] = Returned(
                    [IdleThread EXCEPT !.op = "Disconnect", !.srv = s], "none", <<>>)]
    /\ UNCHANGED <<keyVars, cacheVars, config, tools, mu>>

(* DisconnectAll, lines 1276-1287 *)
DisconnectAll(t) ==
    /\ th[t].pc = "idle"
    /\ CanLock(mu)
    /\ connected' = {}
    /\ th' = [th EXCEPT ![t] = Returned(
                [IdleThread EXCEPT !.op = "DisconnectAll"], "none", <<>>)]
    /\ UNCHANGED <<keyVars, cacheVars, config, tools, mu>>

(* DiscoverServers, lines 1289-1319: no lock of its own; one Connect per   *)
(* enabled server                                                          *)
\* mutant: a failed Connect leaves the initial status
DiscoverStatusKeepsInitial(err) == IF err # "none" THEN "discovered" ELSE "connected"

DiscoverStatus(err) == IF err # "none" THEN "unavailable" ELSE "connected"

\* the loop head: call Connect for entry i, or return when the list is done
DsNext(thr, i) ==
    IF i > Len(config)
    THEN [thr EXCEPT !.pc = "done", !.i = i, !.err = "none"]
    ELSE [thr EXCEPT !.pc = "connect", !.i = i, !.srv = config[i].Name, !.err = "none"]

DsStart(t) ==
    /\ th[t].pc = "idle"
    /\ th' = [th EXCEPT ![t] =
                DsNext([IdleThread EXCEPT !.op = "DiscoverServers"], NextEnabled(1))]
    /\ UNCHANGED <<keyVars, cacheVars, connVars>>

DsRecord(t) ==
    /\ th[t].pc = "ret"
    /\ th[t].op = "DiscoverServers"
    /\ LET info == [Name |-> config[th[t].i].Name, Status |-> DiscoverStatus(th[t].err),
                    connectErr |-> th[t].err]
           thr  == [th[t] EXCEPT !.res = Append(@, info)]
       IN th' = [th EXCEPT ![t] = DsNext(thr, NextEnabled(th[t].i + 1))]
    /\ UNCHANGED <<keyVars, cacheVars, connVars>>

(* ListConnectedServers, lines 1321-1332 *)
ListConnectedServers(t) ==
    /\ th[t].pc = "idle"
    /\ CanRLock(mu)
    /\ \E o \in Enumerations(connected) :
        th' = [th EXCEPT ![t] = Returned(
                    [IdleThread EXCEPT !.op = "ListConnectedServers"], "none", o)]
    /\ UNCHANGED <<keyVars, cacheVars, connVars>>

(* GetServerInfo, lines 1334-1355 *)
GetServerInfo(t) ==
    /\ th[t].pc = "idle"
    /\ \E s \in ServerArgs :
        LET j   == FindServer(s)
            thr == [IdleThread EXCEPT !.op = "GetServerInfo", !.srv = s]
        IN IF j = 0
           THEN th' = [th EXCEPT ![t] = Returned(thr, "not_found", <<>>)]
           ELSE /\ CanRLock(mu)
                /\ th' = [th EXCEPT ![t] = Returned(thr, "none",
                        <<[Name |-> s,
                           Status |-> IF s \in connected THEN "connected"
                                      ELSE "disconnected"]>>)]
    /\ UNCHANGED <<keyVars, cacheVars, connVars>>

\* the goroutines that are inside RefreshTools
Refreshing == {u \in Threads : th[u].op = "RefreshTools" /\ th[u].pc # "done"}

(* GetAvailableTools, lines 1484-1488.  during records the refreshes that  *)
(* were in progress when the catalog was read.                             *)
GetAvailableTools(t) ==
    /\ th[t].pc = "idle"
    /\ CanRLock(mu)
    /\ th' = [th EXCEPT ![t] = Returned(
                [IdleThread EXCEPT !.op = "GetAvailableTools", !.during = Refreshing],
                "none", tools)]
    /\ UNCHANGED <<keyVars, cacheVars, connVars>>

\* GetToolsFromServer, lines 1490-1501
GetToolsFromServer(serverName) ==
    SelectSeq(tools, LAMBDA x : x.ServerName = serverName)

(* RefreshTools, lines 1357-1402 *)
\* mutant: the first server whose Connect fails ends the refresh
RtNextStopsOnError(thr, i) ==
    IF i > Len(config) \/ thr.err # "none"
    THEN [thr EXCEPT !.pc = "rt_end", !.i = i, !.err = "none"]
    ELSE [thr EXCEPT !.pc = "connect", !.i = i, !.srv = config[i].Name, !.err = "none"]

\* the loop head, line 1364: on to the next enabled server, or out of the loop
RtNext(thr, i) ==
    IF i > Len(config)
    THEN [thr EXCEPT !.pc = "rt_end", !.i = i, !.err = "none"]
    ELSE [thr EXCEPT !.pc = "connect", !.i = i, !.srv = config[i].Name, !.err = "none"]

\* lines 1359-1361: the catalog is emptied under the lock, which is released
RtClear(t) ==
    /\ th[t].pc = "idle"
    /\ CanLock(mu)
    /\ tools' = <<>>
    /\ th' = [th EXCEPT ![t] =
                RtNext([IdleThread EXCEPT !.op = "RefreshTools", !.old = tools],
                       NextEnabled(1))]
    /\ UNCHANGED <<keyVars, cacheVars, config, connected, mu>>

\* discoverToolsFromServer, lines 1405-1482, when the session succeeds
ConvertTools(serverName) ==
    [k \in 1..Len(ListTools(serverName)) |->
        [Name |-> ListTools(serverName)[k], ServerName |-> serverName]]

\* lines 1369-1384: Connect's outcome, the connected check, the discovery
RtCheck(t) ==
    /\ th[t].pc = "ret"
    /\ th[t].op = "RefreshTools"
    /\ IF th[t].err # "none"
       THEN th' = [th EXCEPT ![t] = RtNext(th[t], NextEnabled(th[t].i + 1))]
       ELSE /\ CanRLock(mu)
            /\ IF th[t].srv \in connected
               THEN \E sessionOk \in BOOLEAN :
                        IF sessionOk /\ config[FindServer(th[t].srv)].Type = "tcp"
                        THEN th' = [th EXCEPT ![t].pc = "rt_append",
                                              ![t].found = ConvertTools(th[t].srv),
                                              ![t].answered = Append(@, th[t].srv)]
                        ELSE th' = [th EXCEPT ![t] =
                                        RtNext(th[t], NextEnabled(th[t].i + 1))]
               ELSE th' = [th EXCEPT ![t] = RtNext(th[t], NextEnabled(th[t].i + 1))]
    /\ UNCHANGED <<keyVars, cacheVars, connVars>>

\* lines 1387-1389
RtAppend(t) ==
    /\ th[t].pc = "rt_append"
    /\ CanLock(mu)
    /\ tools' = tools \o th[t].found
    /\ th' = [th EXCEPT ![t] =
                RtNext([th[t] EXCEPT !.found = <<>>], NextEnabled(th[t].i + 1))]
    /\ UNCHANGED <<keyVars, cacheVars, config, connected, mu>>

\* lines 1396-1401
RtEnd(t) ==
    /\ th[t].pc = "rt_end"
    /\ CanRLock(mu)
    /\ th' = [th EXCEPT ![t].pc = "done", ![t].err = "none"]
    /\ UNCHANGED <<keyVars, cacheVars, connVars>>

(* HealthCheck, lines 1503-1531 *)
HealthStatus(err) == IF err # "none" THEN "unhealthy" ELSE "healthy"

\* lines 1506-1517: the tool count is read under the read lock, then Connect
HcProbe(t) ==
    /\ th[t].pc \in {"idle", "hc_loop"}
    /\ LET thr == IF th[t].pc = "idle"
                  THEN [IdleThread EXCEPT !.op = "HealthCheck", !.i = NextEnabled(1)]
                  ELSE th[t]
       IN IF thr.i > Len(config)
          THEN th' = [th EXCEPT ![t] = [thr EXCEPT !.pc = "done", !.err = "none"]]
          ELSE /\ CanRLock(mu)
               /\ th' = [th EXCEPT ![t] = [thr EXCEPT
                            !.pc = "connect", !.srv = config[thr.i].Name,
                            !.n = Len(GetToolsFromServer(config[thr.i].Name))]]
    /\ UNCHANGED <<keyVars, cacheVars, connVars>>

HcRecord(t) ==
    /\ th[t].pc = "ret"
    /\ th[t].op = "HealthCheck"
    /\ LET status == [Status |-> HealthStatus(th[t].err), ToolCount |-> th[t].n]
           nxt    == NextEnabled(th[t].i + 1)
       IN th' = [th EXCEPT ![t] = [th[t] EXCEPT
                    !.res = MapSet(@, th[t].srv, status),
                    !.n = 0, !.i = nxt, !.err = "none",
                    !.pc = IF nxt > Len(config) THEN "done" ELSE "hc_loop"]]
    /\ UNCHANGED <<keyVars, cacheVars, connVars>>

\* the caller takes the result; the goroutine is free for the next call
Return(t) ==
    /\ ~crashed
    /\ th[t].pc = "done"
    /\ th' = [u \in Threads |->
                IF u = t THEN IdleThread ELSE [th[u] EXCEPT !.during = @ \ {t}]]
    /\ overtaken' = { p \in overtaken : p[1] # t /\ p[2] # t }
    /\ UNCHANGED <<kc, pl, sq, gi, rg, cacheVars, connVars>>


(* executeTool, lines 1834-1939.  The read lock is taken on entry and,     *)
(* being released by defer, held until the function returns.               *)
Contents == {"c1", "c2"}

\* MCPToolResult{}
NoResult == [ToolName |-> <<>>, ServerName |-> <<>>, Success |-> FALSE,
             Content |-> "", Error |-> ""]

\* lines 1904-1929
ToolResult(toolName, targetServer, isError, content) ==
    [ToolName |-> toolName, ServerName |-> targetServer, Success |-> ~isError,
     Content |-> content,
     Error |-> IF isError THEN "Tool execution returned error" ELSE ""]

\* lines 1839-1845: the server of the first catalog entry with that tool name
TargetServer(toolName) ==
    IF \E k \in DOMAIN tools : tools[k].Name = toolName
    THEN tools[CHOOSE k \in DOMAIN tools :
                    /\ tools[k].Name = toolName
                    /\ \A h \in DOMAIN tools : tools[h].Name = toolName => k <= h].ServerName
    ELSE <<>>

\* the return of executeTool: to ExecuteWithCache (line 1746) or to the caller
EtReturn(thr, e, r) ==
    IF thr.op = "ExecuteWithCache" /\ e = "none"
    THEN [thr EXCEPT !.pc = "ewc_store", !.err = e, !.res = r]
    ELSE Returned(thr, e, r)

\* a direct call, as ExecuteMCPTool makes without a cache manager (line 726)
ExecuteToolCall(t) ==
    /\ th[t].pc = "idle"
    /\ \E tn \in ToolArgs :
        th' = [th EXCEPT ![t] = [IdleThread EXCEPT
                    !.op = "executeTool", !.pc = "et_begin", !.tool = tn]]
    /\ UNCHANGED <<keyVars, cacheVars, connVars>>

\* lines 1835-1869
EtBegin(t) ==
    /\ ~crashed
    /\ th[t].pc = "et_begin"
    /\ CanRLock(mu)
    /\ LET thr == [th[t] EXCEPT !.exec = TRUE]
           target == TargetServer(thr.tool)
       IN IF target = <<>>
          THEN /\ th' = [th EXCEPT ![t] = EtReturn(thr, "tool_not_found", NoResult)]
               /\ mu' = mu
          ELSE IF FindServer(target) = 0
          THEN /\ th' = [th EXCEPT ![t] = EtReturn(thr, "server_config_not_found", NoResult)]
               /\ mu' = mu
          ELSE /\ th' = [th EXCEPT ![t] = [thr EXCEPT
                            !.srv = target,
                            !.pc = IF target \in connected THEN "et_call" ELSE "connect"]]
               /\ mu' = [mu EXCEPT !.readers = @ \cup {t}]
    /\ UNCHANGED <<keyVars, cacheVars, config, connected, tools>>

\* lines 1866-1938: after Connect (if it was called), the session and the call
EtCall(t) ==
    /\ ~crashed
    /\ \/ th[t].pc = "et_call"
       \/ th[t].pc = "ret" /\ th[t].op \in {"executeTool", "ExecuteWithCache"}
    /\ \E sessionOk, callOk, isError \in BOOLEAN, content \in Contents :
        th' = [th EXCEPT ![t] =
                IF th[t].pc = "ret" /\ th[t].err # "none"
                THEN EtReturn(th[t], "connect_failed", NoResult)
                ELSE IF ~sessionOk THEN EtReturn(th[t], "session_failed", NoResult)
                ELSE IF ~callOk THEN EtReturn(th[t], "call_failed", NoResult)
                ELSE EtReturn([th[t] EXCEPT !.remote = IF isError THEN "error" ELSE "ok"],
                        "none", ToolResult(th[t].tool, th[t].srv, isError, content))]
    /\ mu' = [mu EXCEPT !.readers = @ \ {t}]
    /\ UNCHANGED <<keyVars, cacheVars, config, connected, tools>>

(***************************************************************************)
(* realMCPCache and realMCPCacheManager                                    *)
(***************************************************************************)
\* MCPCacheConfig, lines 160-177: a default TTL and an override for tool "ta"
CacheConfig(enabled) ==
    [Enabled |-> enabled, DefaultTTL |-> 1, ToolTTLs |-> (ta :> 2)]

\* newRealMCPCache, lines 1559-1563
NewCache == [data |-> <<>>, readers |-> {}]

\* MCPCachedResult as Set builds it, lines 1588-1594; via records the caller
NewEntry(result, ttl, via) ==
    [Result |-> result, Timestamp |-> now, TTL |-> ttl, AccessCount |-> 0, via |-> via]

\* mutant: an entry is expired as soon as its age reaches the ttl
ExpiredAtTTL(entry, clock) == clock - entry.Timestamp >= entry.TTL

\* line 1575: time.Since(result.Timestamp) > result.TTL
Expired(entry, clock) == clock - entry.Timestamp > entry.TTL

\* the map m without key k
MapDelete(m, k) == [x \in (DOMAIN m) \ {k} |-> m[x]]

\* fmt.Sprintf("%d", n) for n >= 0
RECURSIVE Decimal(_)
Decimal(n) == IF n < 10 THEN <<48 + n>> ELSE Decimal(n \div 10) \o <<48 + (n % 10)>>

\* fmt.Sprintf("%v", v), line 1719, for string and int arguments
FormatValue(v) == IF v.kind = "int" THEN Decimal(v.v) ELSE v.v

StrArg(x) == [kind |-> "str", v |-> x]
IntArg(n) == [kind |-> "int", v |-> n]

Execution(toolName, serverName, arguments) ==
    [ToolName |-> toolName, ServerName |-> serverName, Arguments |-> arguments]

\* the requests made of ExecuteWithCache in this model; "q" is <<113>>
Executions ==
    { Execution(ta, s1, (<<113>> :> StrArg(<<120>>))),
      Execution(ta, s1, (<<113>> :> StrArg(<<121>>))),
      Execution(tb, s2, (<<113>> :> IntArg(1))) }

\* lines 1717-1722 and keyToString: the string the entry is filed under
CacheKeyString(x, ord) ==
    keyToString(GenerateCacheKey(x.ToolName, x.ServerName,
        [k \in DOMAIN x.Arguments |-> FormatValue(x.Arguments[k])], ord))

\* line 1705
PairKey(toolName, serverName) == toolName \o <<58>> \o serverName

\* GetCache, lines 1701-1713: the pair's cache object, created on first use
GetCache(toolName, serverName) ==
    LET key == PairKey(toolName, serverName)
    IN IF key \in DOMAIN cmCaches
       THEN [id |-> cmCaches[key], caches |-> cmCaches, heap |-> heap]
       ELSE [id |-> Len(heap) + 1,
             caches |-> MapSet(cmCaches, key, Len(heap) + 1),
             heap |-> Append(heap, NewCache)]

\* mutant: every result of an execution that returned no error is stored
ShouldCacheAnyResult(enabled, result) == enabled

\* line 1751
ShouldCache(enabled, result) == enabled /\ result.Success

\* lines 1735-1744: on to the execution, unless there is no manager
EwcExecute(thr) ==
    IF globalMCPManager = "nil"
    THEN Returned(thr, "manager_not_initialized", NoResult)
    ELSE [thr EXCEPT !.pc = "et_begin"]

\* mutant: the cache is consulted whether caching is enabled or not
AfterKeyLooksUpAnyway(thr, enabled) == [thr EXCEPT !.pc = "get"]

\* line 1725: the lookup is made only if caching is enabled
AfterKey(thr, enabled) ==
    IF enabled THEN [thr EXCEPT !.pc = "get"] ELSE EwcExecute(thr)

\* calls of ExecuteWithCache that have not yet been counted as hit or miss
Uncounted == {u \in Threads : th[u].op = "ExecuteWithCache" /\ th[u].pc \in {"get", "get_body"}}

(* ExecuteWithCache, lines 1715-1767 *)
\* lines 1716-1725: the key, the pair's cache, the Enabled test
EwcBegin(t) ==
    /\ ~crashed
    /\ th[t].pc = "idle"
    /\ nHits + nMisses + Cardinality(Uncounted) < MaxCalls
    /\ CanLock(cmu)
    /\ \E x \in Executions : \E ord \in Enumerations(DOMAIN x.Arguments) :
        LET g   == GetCache(x.ToolName, x.ServerName)
            thr == [IdleThread EXCEPT !.op = "ExecuteWithCache", !.tool = x.ToolName,
                        !.xsrv = x.ServerName, !.key = CacheKeyString(x, ord),
                        !.cache = g.id]
        IN /\ cmCaches' = g.caches
           /\ heap' = g.heap
           /\ th' = [th EXCEPT ![t] = AfterKey(thr, ccfg.Enabled)]
           /\ nMisses' = IF ccfg.Enabled THEN nMisses ELSE nMisses + 1
    /\ UNCHANGED <<keyVars, connVars, globalMCPManager, ccfg, cmu, now, crashed, nHits>>

(* Get, lines 1565-1581.  GetEnter is c.mu.RLock, which other readers do   *)
(* not exclude; GetBody is the lookup, the expiry test, the delete and the *)
(* unlock.                                                                 *)
GetEnter(t) ==
    /\ ~crashed
    /\ th[t].pc = "get"
    /\ heap' = [heap EXCEPT ![th[t].cache].readers = @ \cup {t}]
    /\ th' = [th EXCEPT ![t].pc = "get_body"]
    /\ UNCHANGED <<keyVars, connVars, globalMCPManager, ccfg, cmCaches, cmu, now,
                   crashed, nHits, nMisses>>

\* mutant: the lookup's answer is ignored and the tool is executed all the same
AfterGetExecutesAnyway(thr, e, entry) ==
    IF thr.op = "ExecuteWithCache"
    THEN EwcExecute(thr)
    ELSE Returned(thr, e, IF e = "none" THEN <<entry>> ELSE <<>>)

\* the caller of Get goes on: ExecuteWithCache lines 1726-1733, or the API caller
AfterGet(thr, e, entry) ==
    IF thr.op = "ExecuteWithCache"
    THEN IF e = "none" THEN Returned(thr, "none", entry.Result) ELSE EwcExecute(thr)
    ELSE Returned(thr, e, IF e = "none" THEN <<entry>> ELSE <<>>)

GetBody(t) ==
    /\ ~crashed
    /\ th[t].pc = "get_body"
    /\ LET c    == th[t].cache
           k    == th[t].key
           d    == heap[c].data
           e    == IF k \notin DOMAIN d THEN "cache miss"
                   ELSE IF Expired(d[k], now) THEN "cache expired"
                   ELSE "none"
           racy == e = "cache expired" /\ heap[c].readers \ {t} # {}
       IN /\ heap' = [heap EXCEPT
                        ![c].readers = @ \ {t},
                        ![c].data = IF e = "cache expired" THEN MapDelete(d, k) ELSE d]
          /\ th' = [th EXCEPT ![t] = AfterGet(th[t], e, IF e = "none" THEN d[k] ELSE <<>>)]
          \* the delete runs under the read lock: with another reader inside,
          \* the runtime may stop the process (concurrent map read and map write)
          /\ crashed' \in (IF racy THEN BOOLEAN ELSE {FALSE})
          /\ IF th[t].op = "ExecuteWithCache"
             THEN /\ nHits' = IF e = "none" THEN nHits + 1 ELSE nHits
                  /\ nMisses' = IF e = "none" THEN nMisses ELSE nMisses + 1
             ELSE UNCHANGED <<nHits, nMisses>>
    /\ UNCHANGED <<keyVars, connVars, globalMCPManager, ccfg, cmCaches, cmu, now>>

\* mutant: overwriting an entry keeps the time it was first stored
SetEntryKeepsCreation(c, k, result, ttl, via) ==
    /\ heap[c].readers = {}
    /\ heap' = [heap EXCEPT ![c].data = MapSet(heap[c].data, k,
                    IF k \in DOMAIN heap[c].data
                    THEN [NewEntry(result, ttl, via) EXCEPT
                                !.Timestamp = heap[c].data[k].Timestamp]
                    ELSE NewEntry(result, ttl, via))]

\* mutant: an entry already filed under the key is kept
SetEntryIfAbsent(c, k, result, ttl, via) ==
    /\ heap[c].readers = {}
    /\ heap' = IF k \in DOMAIN heap[c].data THEN heap
               ELSE [heap EXCEPT ![c].data = MapSet(@, k, NewEntry(result, ttl, via))]

\* Set, lines 1583-1598, on cache object c (c.mu.Lock excludes the readers)
SetEntry(c, k, result, ttl, via) ==
    /\ heap[c].readers = {}
    /\ heap' = [heap EXCEPT ![c].data = MapSet(@, k, NewEntry(result, ttl, via))]

\* lines 1750-1766
EwcStore(t) ==
    /\ ~crashed
    /\ th[t].pc = "ewc_store"
    /\ IF ShouldCache(ccfg.Enabled, th[t].res)
       THEN SetEntry(th[t].cache, th[t].key, th[t].res, ccfg.DefaultTTL, "ExecuteWithCache")
       ELSE heap' = heap
    /\ th' = [th EXCEPT ![t].pc = "done"]
    /\ UNCHANGED <<keyVars, connVars, globalMCPManager, ccfg, cmCaches, cmu, now,
                   crashed, nHits, nMisses>>

(* GetGlobalStats, lines 1785-1808, over Stats, lines 1650-1661.  served   *)
(* records the hits and misses served when the statistics were taken.      *)
Stats(c) == [HitCount |-> 0, MissCount |-> 0, TotalKeys |-> Cardinality(DOMAIN heap[c].data)]

RECURSIVE SumStats(_, _)
SumStats(ids, total) ==
    IF ids = {} THEN total
    ELSE LET c == CHOOSE x \in ids : TRUE
         IN SumStats(ids \ {c},
                [HitCount  |-> total.HitCount + Stats(c).HitCount,
                 MissCount |-> total.MissCount + Stats(c).MissCount,
                 TotalKeys |-> total.TotalKeys + Stats(c).TotalKeys])

\* HitRate as the fraction num/den; 0 is 0/1
GlobalStats ==
    LET total == SumStats({cmCaches[p] : p \in DOMAIN cmCaches},
                          [HitCount |-> 0, MissCount |-> 0, TotalKeys |-> 0])
    IN [HitCount |-> total.HitCount, MissCount |-> total.MissCount,
        TotalKeys |-> total.TotalKeys,
        HitRateNum |-> IF total.HitCount + total.MissCount > 0 THEN total.HitCount ELSE 0,
        HitRateDen |-> IF total.HitCount + total.MissCount > 0
                       THEN total.HitCount + total.MissCount ELSE 1]

GetGlobalStats(t) ==
    /\ ~crashed
    /\ th[t].pc = "idle"
    /\ CanRLock(cmu)
    /\ th' = [th EXCEPT ![t] = Returned(
                [IdleThread EXCEPT !.op = "GetGlobalStats"], "none",
                <<GlobalStats, [hits |-> nHits, misses |-> nMisses]>>)]
    /\ UNCHANGED <<keyVars, connVars, cacheVars>>

(* Configure, lines 1825-1831 *)
CacheConfigs == {CacheConfig(e) : e \in BOOLEAN}

Configure(t) ==
    /\ ~crashed
    /\ th[t].pc = "idle"
    /\ CanLock(cmu)
    /\ \E c \in CacheConfigs :
        /\ c # ccfg
        /\ ccfg' = c
    /\ th' = [th EXCEPT ![t] = Returned([IdleThread EXCEPT !.op = "Configure"], "none", <<>>)]
    /\ UNCHANGED <<keyVars, connVars, globalMCPManager, cmCaches, cmu, heap, now,
                   crashed, nHits, nMisses>>

\* time passes
Tick ==
    /\ ~crashed
    /\ now < MaxTime
    /\ now' = now + 1
    /\ UNCHANGED <<keyVars, connVars, th, globalMCPManager, ccfg, cmCaches, cmu, heap,
                   crashed, nHits, nMisses>>

(* InvalidateByPattern, lines 1769-1783, over Clear, lines 1609-1615.  The *)
(* manager's read lock is held during the whole call; each Clear takes the *)
(* cache's own write lock.  todo holds the matching caches that the range  *)
(* loop has not reached; cleared and wiped record what the call emptied,   *)
(* old what the caches held when a repeated call began.                    *)
\* "ta", "s2", ":", "sx"
Patterns == {ta, s2, <<58>>, sx}

\* strings.Contains
Contains(str, substr) ==
    \E i \in 1..(Len(str) - Len(substr) + 1) : SubSeq(str, i, i + Len(substr) - 1) = substr

\* mutant: every per-pair cache is taken to match
MatchesAnything(pairKey, pattern) == TRUE

\* line 1775
Matches(pairKey, pattern) == Contains(pairKey, pattern)

\* the cache objects the loop clears
Matching(pattern) == {cmCaches[k] : k \in {x \in DOMAIN cmCaches : Matches(x, pattern)}}

\* mutant: Clear removes one entry only
ClearedOneEntryLess(data) ==
    IF data = <<>> THEN data ELSE MapDelete(data, CHOOSE k \in DOMAIN data : TRUE)

\* line 1613: c.data = make(map[string]*MCPCachedResult)
Cleared(data) == <<>>

\* what every cache holds
CacheData == [c \in DOMAIN heap |-> heap[c].data]

\* lines 1770-1774: the read lock, then the loop, which ends at once if no
\* cache matches
IbpEnter(t, thr) ==
    /\ CanRLock(cmu)
    /\ IF Matching(thr.pattern) = {}
       THEN /\ th' = [th EXCEPT ![t] = Returned(thr, "none", <<>>)]
            /\ cmu' = cmu
       ELSE /\ th' = [th EXCEPT ![t] = [thr EXCEPT !.pc = "ibp",
                                                   !.todo = Matching(thr.pattern)]]
            /\ cmu' = [cmu EXCEPT !.readers = @ \cup {t}]
    /\ UNCHANGED <<keyVars, connVars, globalMCPManager, ccfg, cmCaches, heap, now,
                   crashed, nHits, nMisses>>

IbpStart(t) ==
    /\ ~crashed
    /\ th[t].pc = "idle"
    /\ \E p \in Patterns :
        IbpEnter(t, [IdleThread EXCEPT !.op = "InvalidateByPattern", !.pattern = p,
                                      !.n = 1])

\* the caller repeats the call it has just made, with the same pattern
IbpAgain(t) ==
    /\ ~crashed
    /\ th[t].pc = "done"
    /\ th[t].op = "InvalidateByPattern"
    /\ th[t].n = 1
    /\ IbpEnter(t, [IdleThread EXCEPT !.op = "InvalidateByPattern",
                                      !.pattern = th[t].pattern,
                                      !.n = 2, !.old = CacheData])

\* the callers of ExecuteWithCache that have missed in cache c and have not
\* stored their result yet (lines 1735-1752)
InFlight(c) ==
    { v \in Threads : /\ th[v].op = "ExecuteWithCache"
                      /\ th[v].cache = c
                      /\ th[v].pc \in {"et_begin", "connect", "dialing", "ret", "et_call",
                                       "ewc_store"} }

\* lines 1774-1782: Clear on the next matching cache; after the last one the
\* lock is released and nil returned.  overtaken records the callers that
\* were in flight on a cache when it was cleared.
IbpClear(t) ==
    /\ ~crashed
    /\ th[t].pc = "ibp"
    /\ \E c \in th[t].todo :
        /\ heap[c].readers = {}
        /\ heap' = [heap EXCEPT ![c].data = Cleared(@)]
        /\ LET thr == [th[t] EXCEPT
                        !.todo = @ \ {c},
                        !.cleared = @ \cup {c},
                        !.wiped = @ \cup {<<c, k>> : k \in DOMAIN heap[c].data}]
           IN IF thr.todo = {}
              THEN /\ th' = [th EXCEPT ![t] = Returned(thr, "none", <<>>)]
                   /\ cmu' = [cmu EXCEPT !.readers = @ \ {t}]
              ELSE /\ th' = [th EXCEPT ![t] = thr]
                   /\ cmu' = cmu
        /\ overtaken' = overtaken \cup {<<t, v>> : v \in InFlight(c)}
    /\ UNCHANGED <<kc, pl, sq, gi, rg, connVars, globalMCPManager, ccfg, cmCaches, now,
                   crashed, nHits, nMisses>>

(* One ToolCache used through its own interface (MCPCache, lines 67-92)    *)
\* the keys and the values the callers use
CacheKeys == {CacheKeyString(x, o) : x \in {y \in Executions : y.ToolName = ta},
                                     o \in Enumerations({<<113>>})}
SetResults == {ToolResult(ta, s1, isError, "c1") : isError \in BOOLEAN}
SetTTLs == {1, 2}

CacheSet(t) ==
    /\ ~crashed
    /\ th[t].pc = "idle"
    /\ \E k \in CacheKeys, r \in SetResults, ttl \in SetTTLs :
        /\ SetEntry(1, k, r, ttl, "Set")
        /\ th' = [th EXCEPT ![t] = Returned(
                    [IdleThread EXCEPT !.op = "Set", !.key = k, !.cache = 1,
                                       !.arg = <<r, ttl>>,
                                       !.old = IF k \notin DOMAIN heap[1].data
                                               THEN <<"absent">>
                                               ELSE IF Expired(heap[1].data[k], now)
                                               THEN <<"expired">> ELSE <<"live">>],
                    "none", <<>>)]
    /\ UNCHANGED <<keyVars, connVars, globalMCPManager, ccfg, cmCaches, cmu, now,
                   crashed, nHits, nMisses>>

\* Get called on the cache: line 1566
CacheGet(t) ==
    /\ ~crashed
    /\ th[t].pc = "idle"
    /\ \E k \in CacheKeys :
        th' = [th EXCEPT ![t] = [IdleThread EXCEPT
                    !.op = "Get", !.pc = "get_body", !.key = k, !.cache = 1]]
    /\ heap' = [heap EXCEPT ![1].readers = @ \cup {t}]
    /\ UNCHANGED <<keyVars, connVars, globalMCPManager, ccfg, cmCaches, cmu, now,
                   crashed, nHits, nMisses>>

\* Exists called on the cache: the read lock is taken, line 1625
ExistsEnter(t) ==
    /\ ~crashed
    /\ th[t].pc = "idle"
    /\ \E k \in CacheKeys :
        th' = [th EXCEPT ![t] = [IdleThread EXCEPT
                    !.op = "Exists", !.pc = "exists_body", !.key = k, !.cache = 1]]
    /\ heap' = [heap EXCEPT ![1].readers = @ \cup {t}]
    /\ UNCHANGED <<keyVars, connVars, globalMCPManager, ccfg, cmCaches, cmu, now,
                   crashed, nHits, nMisses>>

\* lines 1628-1630: the key is in the map
ExistsResult(data, k, clock) == k \in DOMAIN data

\* lines 1628-1630 and the deferred RUnlock
ExistsBody(t) ==
    /\ ~crashed
    /\ th[t].pc = "exists_body"
    /\ LET c == th[t].cache
       IN  /\ th' = [th EXCEPT ![t] =
                        Returned(th[t], "none", <<ExistsResult(heap[c].data, th[t].key, now)>>)]
           /\ heap' = [heap EXCEPT ![c].readers = @ \ {t}]
    /\ UNCHANGED <<keyVars, connVars, globalMCPManager, ccfg, cmCaches, cmu, now,
                   crashed, nHits, nMisses>>

\* Delete, lines 1600-1607, under the write lock
CacheDelete(t) ==
    /\ ~crashed
    /\ th[t].pc = "idle"
    /\ heap[1].readers = {}
    /\ \E k \in CacheKeys :
        /\ heap' = [heap EXCEPT ![1].data = MapDelete(@, k)]
        /\ th' = [th EXCEPT ![t] = Returned(
                    [IdleThread EXCEPT !.op = "Delete", !.key = k, !.cache = 1], "none", <<>>)]
    /\ UNCHANGED <<keyVars, connVars, globalMCPManager, ccfg, cmCaches, cmu, now,
                   crashed, nHits, nMisses>>

\* Clear, lines 1609-1615, under the write lock
CacheClear(t) ==
    /\ ~crashed
    /\ th[t].pc = "idle"
    /\ heap[1].readers = {}
    /\ heap' = [heap EXCEPT ![1].data = Cleared(@)]
    /\ th' = [th EXCEPT ![t] = Returned(
                [IdleThread EXCEPT !.op = "Clear", !.cache = 1], "none", <<>>)]
    /\ UNCHANGED <<keyVars, connVars, globalMCPManager, ccfg, cmCaches, cmu, now,
                   crashed, nHits, nMisses>>

\* mutant: an entry is deleted as soon as its age reaches its ttl
CleanedUpAtTtl(data, clock) ==
    [k \in { x \in DOMAIN data : ~(clock - data[x].Timestamp >= data[x].TTL) } |-> data[k]]

\* lines 1668-1673: the entries that the loop does not delete
CleanedUp(data, clock) ==
    [k \in { x \in DOMAIN data : ~(clock - data[x].Timestamp > data[x].TTL) } |-> data[k]]

\* Cleanup, lines 1663-1676, under the write lock
CacheCleanup(t) ==
    /\ ~crashed
    /\ th[t].pc = "idle"
    /\ heap[1].readers = {}
    /\ heap' = [heap EXCEPT ![1].data = CleanedUp(@, now)]
    /\ th' = [th EXCEPT ![t] = Returned(
                [IdleThread EXCEPT
                    !.op = "Cleanup", !.cache = 1,
                    !.wiped = {<<1, k>> : k \in DOMAIN heap[1].data \ DOMAIN heap'[1].data}],
                "none", <<>>)]
    /\ UNCHANGED <<keyVars, connVars, globalMCPManager, ccfg, cmCaches, cmu, now,
                   crashed, nHits, nMisses>>

\* invocations of tool "ta" that name a server: the first server of the
\* catalog that offers it, and another one that offers it too
NamedExecutions ==
    { Execution(ta, s1, (<<113>> :> StrArg(<<120>>))),
      Execution(ta, s2, (<<113>> :> StrArg(<<120>>))) }

\* ExecuteWithCache, lines 1715-1733, called with one of these invocations
EwcBeginNamed(t) ==
    /\ ~crashed
    /\ th[t].pc = "idle"
    /\ nHits + nMisses + Cardinality(Uncounted) < MaxCalls
    /\ CanLock(cmu)
    /\ \E x \in NamedExecutions : \E ord \in Enumerations(DOMAIN x.Arguments) :
        LET g   == GetCache(x.ToolName, x.ServerName)
            thr == [IdleThread EXCEPT !.op = "ExecuteWithCache", !.tool = x.ToolName,
                        !.xsrv = x.ServerName, !.key = CacheKeyString(x, ord),
                        !.cache = g.id]
        IN /\ cmCaches' = g.caches
           /\ heap' = g.heap
           /\ th' = [th EXCEPT ![t] = AfterKey(thr, ccfg.Enabled)]
           /\ nMisses' = IF ccfg.Enabled THEN nMisses ELSE nMisses + 1
    /\ UNCHANGED <<keyVars, connVars, globalMCPManager, ccfg, cmu, now, crashed, nHits>>

(* GetCache and Shutdown called directly on the cache manager, with tool   *)
(* and server names that may contain the ':' GetCache joins them with.     *)
\* "ta:s1"
taS1 == ta \o <<58>> \o s1

\* "s1:s2"
s1S2 == s1 \o <<58>> \o s2

PairTools == {ta, tb, taS1}

PairServers == {s1, s2, s1S2}

\* GetCache, lines 1701-1713, under the manager's write lock
GetCacheCall(t) ==
    /\ ~crashed
    /\ th[t].pc = "idle"
    /\ CanLock(cmu)
    /\ \E tn \in PairTools, sn \in PairServers :
        LET g == GetCache(tn, sn)
        IN  /\ Len(g.heap) <= MaxObjects
            /\ cmCaches' = g.caches
            /\ heap' = g.heap
            /\ th' = [th EXCEPT ![t] = Returned(
                        [IdleThread EXCEPT !.op = "GetCache", !.tool = tn, !.xsrv = sn,
                                           !.cache = g.id], "none", <<>>)]
    /\ UNCHANGED <<keyVars, connVars, globalMCPManager, ccfg, cmu, now, crashed,
                   nHits, nMisses>>

\* Shutdown, lines 1810-1823: every cache is cleared and the map replaced.
\* A cache that a caller still holds from before is marked stale.
Shutdown(t) ==
    /\ ~crashed
    /\ th[t].pc = "idle"
    /\ CanLock(cmu)
    /\ \A k \in DOMAIN cmCaches : heap[cmCaches[k]].readers = {}
    /\ heap' = [c \in DOMAIN heap |->
                    IF \E k \in DOMAIN cmCaches : cmCaches[k] = c
                    THEN [heap[c] EXCEPT !.data = Cleared(@)] ELSE heap[c]]
    /\ cmCaches' = <<>>
    /\ th' = [u \in Threads |->
                IF u = t THEN Returned([IdleThread EXCEPT !.op = "Shutdown"], "none", <<>>)
                ELSE IF th[u].op = "GetCache" THEN [th[u] EXCEPT !.old = <<"stale">>]
                ELSE th[u]]
    /\ UNCHANGED <<keyVars, connVars, globalMCPManager, ccfg, cmu, now, crashed,
                   nHits, nMisses>>

(***************************************************************************)
(* ParseLLMToolCalls and ParseToolCallJSON, lines 2213-2300                *)
(***************************************************************************)
\* strings.HasPrefix, strings.HasSuffix
HasPrefix(s, prefix) == Len(s) >= Len(prefix) /\ SubSeq(s, 1, Len(prefix)) = prefix

HasSuffix(s, suffix) ==
    Len(s) >= Len(suffix) /\ SubSeq(s, Len(s) - Len(suffix) + 1, Len(s)) = suffix

\* strings.Index, counted from 1; 0 when sep does not occur
Index(s, sep) ==
    IF Contains(s, sep)
    THEN CHOOSE i \in 1..(Len(s) - Len(sep) + 1) :
            /\ SubSeq(s, i, i + Len(sep) - 1) = sep
            /\ \A j \in 1..(i - 1) : SubSeq(s, j, j + Len(sep) - 1) # sep
    ELSE 0

\* strings.Split for a non-empty separator
RECURSIVE Split(_, _)
Split(s, sep) ==
    LET i == Index(s, sep)
    IN  IF i = 0 THEN <<s>>
        ELSE <<SubSeq(s, 1, i - 1)>> \o Split(SubSeq(s, i + Len(sep), Len(s)), sep)

\* strings.SplitN(s, sep, 2)
SplitN2(s, sep) ==
    LET i == Index(s, sep)
    IN  IF i = 0 THEN <<s>>
        ELSE <<SubSeq(s, 1, i - 1), SubSeq(s, i + Len(sep), Len(s))>>

\* the least element of a non-empty set of numbers
Least(S) == CHOOSE x \in S : \A y \in S : x <= y

\* strings.Trim(s, cutset), cutset as a set of code points: what lies between
\* the first and the last code point outside the cutset
Trim(s, cutset) ==
    LET kept == { j \in 1..Len(s) : s[j] \notin cutset }
    IN  IF kept = {} THEN <<>>
        ELSE SubSeq(s, Least(kept), CHOOSE x \in kept : \A y \in kept : y <= x)

\* the values of a decoded map[string]interface{}: a string or a nested map
JString(s) == [kind |-> "string", str |-> s, obj |-> <<>>]

JObject(m) == [kind |-> "object", str |-> <<>>, obj |-> m]

\* encoding/json as used at line 2270, for objects whose values are strings
\* or objects and strings without escapes: white space, then a value
\* the first position from i on that holds no white space, Len(s) + 1 at the end
SkipSpace(s, i) ==
    Least({ j \in i..Len(s) : s[j] \notin {32, 9, 10, 13} } \cup {Len(s) + 1})

\* position of the quote that closes a string whose text starts at i, or 0
StringEnd(s, i) ==
    LET quotes == { j \in i..Len(s) : s[j] = 34 }
    IN  IF quotes = {} THEN 0 ELSE Least(quotes)

SyntaxError == [ok |-> FALSE, val |-> JString(<<>>), next |-> 0]

RECURSIVE DecodeValue(_, _)
RECURSIVE DecodeMembers(_, _, _)
\* the value that starts at or after position i0: [ok, val, next]
DecodeValue(s, i0) ==
    LET i == SkipSpace(s, i0)
    IN  IF i > Len(s) THEN SyntaxError
        ELSE IF s[i] = 34
        THEN LET e == StringEnd(s, i + 1)
             IN  IF e = 0 THEN SyntaxError
                 ELSE [ok |-> TRUE, val |-> JString(SubSeq(s, i + 1, e - 1)), next |-> e + 1]
        ELSE IF s[i] = 123
        THEN LET j == SkipSpace(s, i + 1)
             IN  IF j <= Len(s) /\ s[j] = 125
                 THEN [ok |-> TRUE, val |-> JObject(<<>>), next |-> j + 1]
                 ELSE DecodeMembers(s, j, <<>>)
        ELSE SyntaxError

\* the members of an object from the key at position i on; a repeated key
\* keeps its last value
DecodeMembers(s, i, m) ==
    IF i > Len(s) \/ s[i] # 34 THEN SyntaxError
    ELSE LET e == StringEnd(s, i + 1)
         IN  IF e = 0 THEN SyntaxError
             ELSE LET key == SubSeq(s, i + 1, e - 1)
                      c == SkipSpace(s, e + 1)
                  IN  IF c > Len(s) \/ s[c] # 58 THEN SyntaxError
                      ELSE LET v == DecodeValue(s, c + 1)
                           IN  IF ~v.ok THEN SyntaxError
                               ELSE LET m2 == MapSet(m, key, v.val)
                                        d == SkipSpace(s, v.next)
                                    IN  IF d > Len(s) THEN SyntaxError
                                        ELSE IF s[d] = 125
                                        THEN [ok |-> TRUE, val |-> JObject(m2),
                                              next |-> d + 1]
                                        ELSE IF s[d] = 44
                                        THEN DecodeMembers(s, SkipSpace(s, d + 1), m2)
                                        ELSE SyntaxError

\* json.Unmarshal([]byte(jsonStr), &result), line 2270: [ok, val]
Unmarshal(jsonStr) ==
    LET v == DecodeValue(jsonStr, 1)
    IN  IF v.ok /\ v.val.kind = "object" /\ SkipSpace(jsonStr, v.next) = Len(jsonStr) + 1
        THEN [ok |-> TRUE, val |-> v.val.obj]
        ELSE [ok |-> FALSE, val |-> <<>>]

\* "args"
ArgsKey == <<97, 114, 103, 115>>

RECURSIVE ParseToolCallJSON(_)
RECURSIVE SimpleParse(_, _)
\* lines 2266-2300
ParseToolCallJSON(jsonStr) ==
    LET u == Unmarshal(jsonStr)
    IN  IF u.ok THEN u.val
        ELSE SimpleParse(Split(Trim(jsonStr, {123, 125}), <<44>>), <<>>)

\* the loop of lines 2281-2297 over the comma-separated parts
SimpleParse(parts, result) ==
    IF parts = <<>> THEN result
    ELSE LET part == Head(parts)
         IN  IF ~Contains(part, <<58>>) THEN SimpleParse(Tail(parts), result)
             ELSE LET keyValue == SplitN2(part, <<58>>)
                      key == Trim(keyValue[1], {32, 34})
                      value == Trim(keyValue[2], {32, 34})
                  IN  SimpleParse(Tail(parts),
                        MapSet(result, key,
                            IF /\ key = ArgsKey
                               /\ HasPrefix(value, <<123>>)
                               /\ HasSuffix(value, <<125>>)
                            THEN JObject(ParseToolCallJSON(value))
                            ELSE JString(value)))

\* braceCount of lines 2228-2235 after the code point at position j
BraceCount(part, j) ==
    Cardinality({ k \in 1..j : part[k] = 123 }) - Cardinality({ k \in 1..j : part[k] = 125 })

\* mutant: the scan stops at the first closing brace, whatever the depth
BraceScanFirstClosing(part) ==
    LET closing == { j \in 1..Len(part) : part[j] = 125 }
    IN  IF closing = {} THEN 0 ELSE Least(closing)

\* the scan of lines 2228-2240: position of the first closing brace that
\* brings braceCount to zero, 0 when there is none
BraceScan(part) ==
    LET closing == { j \in 1..Len(part) : part[j] = 125 /\ BraceCount(part, j) = 0 }
    IN  IF closing = {} THEN 0 ELSE Least(closing)

\* lines 2226-2254: what one part after a marker adds to toolCalls
PartCalls(part) ==
    IF HasPrefix(part, <<123>>)
    THEN LET endIndex == BraceScan(part)
         IN  IF endIndex - 1 > 0
             THEN LET toolCall == ParseToolCallJSON(SubSeq(part, 1, endIndex))
                  IN  IF DOMAIN toolCall # {} THEN <<toolCall>> ELSE <<>>
             ELSE <<>>
    ELSE <<>>

\* mutant: a part that adds nothing ends the loop
NextPartStopsAtSkipped(parts, i, added) == IF added = <<>> THEN Len(parts) + 1 ELSE i + 1

\* line 2222: the loop goes on to the next part whatever this one added
NextPart(parts, i, added) == i + 1

\* TOOL_CALL
Marker == <<84, 79, 79, 76, 95, 67, 65, 76, 76>>

\* {"name":"search","args":{"query":"x"}}
ObjSearch == <<123, 34, 110, 97, 109, 101, 34, 58, 34, 115, 101, 97, 114, 99, 104, 34, 44, 34, 97, 114, 103, 115, 34, 58, 123, 34, 113, 117, 101, 114, 121, 34, 58, 34, 120, 34, 125, 125>>

\* {"name":"a}b"}
ObjBrace == <<123, 34, 110, 97, 109, 101, 34, 58, 34, 97, 125, 98, 34, 125>>

\* {}
ObjEmpty == <<123, 125>>

\* {"name":"a"
ObjOpen == <<123, 34, 110, 97, 109, 101, 34, 58, 34, 97, 34>>

\*  x
Plain == <<32, 120>>

\* {name:a}
ObjLoose == <<123, 110, 97, 109, 101, 58, 97, 125>>

\* {name:a,args:{q:x,r:y}}
ObjLooseArgs == <<123, 110, 97, 109, 101, 58, 97, 44, 97, 114, 103, 115, 58, 123, 113, 58, 120, 44, 114, 58, 121, 125, 125>>

\* the pieces the checked texts are put together from
Fragments == {Marker, ObjSearch, ObjBrace, ObjEmpty, ObjOpen, Plain, ObjLoose, ObjLooseArgs}

RECURSIVE Concat(_)
Concat(seq) == IF seq = <<>> THEN <<>> ELSE Head(seq) \o Concat(Tail(seq))

Texts == { Concat(f) : f \in UNION { [1..n -> Fragments] : n \in 0..MaxFrags } }

PlIdle == [phase |-> "idle", content |-> <<>>, parts |-> <<>>, i |-> 0, toolCalls |-> <<>>]

\* line 2221
ParseSplit ==
    /\ pl.phase = "input"
    /\ pl' = [pl EXCEPT !.phase = "loop", !.parts = Split(pl.content, Marker), !.i = 2]
    /\ UNCHANGED <<kc, sq, gi, rg, overtaken, connVars, cacheVars, th>>

\* lines 2222-2255, one turn of the loop
ParsePart ==
    /\ pl.phase = "loop"
    /\ pl.i <= Len(pl.parts)
    /\ LET added == PartCalls(pl.parts[pl.i])
       IN  pl' = [pl EXCEPT !.toolCalls = @ \o added,
                            !.i = NextPart(pl.parts, pl.i, added)]
    /\ UNCHANGED <<kc, sq, gi, rg, overtaken, connVars, cacheVars, th>>

\* line 2260
ParseReturn ==
    /\ pl.phase = "loop"
    /\ pl.i > Len(pl.parts)
    /\ pl' = [pl EXCEPT !.phase = "done"]
    /\ UNCHANGED <<kc, sq, gi, rg, overtaken, connVars, cacheVars, th>>

(***************************************************************************)
(* SequentialAgent, internal/agents/sequential.go                          *)
(***************************************************************************)
\* State objects live in sq.objs and are named by their position there; the
\* data of a state is the list of the sub-agents that wrote to it.
\* mutant: the sub-agent is handed a new, empty state
CloneEmpty(objs, ref) == Append(objs, <<>>)

\* State.Clone, line 71: a new object holding a copy of the data
Clone(objs, ref) == Append(objs, objs[ref])

\* NewSequentialAgent, lines 23-39: the sub-agents given, nil ones (0) left out
NewSequentialAgent(given) == SelectSeq(given, LAMBDA a : a # 0)

\* the lists of sub-agents a SequentialAgent is constructed from in this model:
\* the sub-agent at position k is named k, or is nil
GivenAgents == UNION { { g \in [1..n -> 0..n] : \A k \in 1..n : g[k] \in {0, k} } :
                        n \in 0..MaxAgents }

\* what a sub-agent's Run does with its input state: write to it and return
\* it, return a new state, or write to it and return an error
AgentOutcomes == {"same", "fresh", "error"}

SqIdle == [pc |-> "idle", agents |-> <<>>, i |-> 0, ctx |-> "live", objs |-> <<>>,
           initialState |-> 0, nextState |-> 0, ret |-> 0, err |-> "none",
           ran |-> <<>>, lastOk |-> <<>>, stopped |-> FALSE, given |-> <<>>]

\* mutant: Run carries on with the next sub-agent after an error
AfterAgentErrorContinues(s) == [s EXCEPT !.i = @ + 1, !.pc = "select"]

\* lines 75-84: the error is returned with the state before the sub-agent ran
AfterAgentError(s) == [s EXCEPT !.pc = "done", !.ret = s.nextState, !.err = "agent"]

\* lines 45-53: no sub-agents, or the loop is entered
SqEnter ==
    /\ sq.pc = "start"
    /\ sq' = IF Len(sq.agents) = 0
             THEN [sq EXCEPT !.pc = "done", !.ret = sq.initialState]
             ELSE [sq EXCEPT !.pc = "select", !.nextState = sq.initialState, !.i = 1]
    /\ UNCHANGED <<kc, pl, gi, rg, overtaken, connVars, cacheVars, th>>

\* lines 57-66: the select on ctx.Done() before a sub-agent
SqSelect ==
    /\ sq.pc = "select"
    /\ sq.i <= Len(sq.agents)
    /\ sq' = IF sq.ctx = "cancelled"
             THEN [sq EXCEPT !.pc = "done", !.ret = sq.nextState, !.err = "cancelled",
                             !.stopped = TRUE]
             ELSE [sq EXCEPT !.pc = "run"]
    /\ UNCHANGED <<kc, pl, gi, rg, overtaken, connVars, cacheVars, th>>

\* lines 71-86: the sub-agent runs on a clone of nextState
SqRun ==
    /\ sq.pc = "run"
    /\ \E outcome \in AgentOutcomes :
        LET agent == sq.agents[sq.i]
            cloned == Clone(sq.objs, sq.nextState)
            inputState == Len(cloned)
            written == Append(cloned[inputState], agent)
            started == [sq EXCEPT !.ran = Append(@, agent)]
        IN  sq' = CASE outcome = "same" ->
                        [started EXCEPT !.objs = [cloned EXCEPT ![inputState] = written],
                                        !.nextState = inputState, !.lastOk = written,
                                        !.i = @ + 1, !.pc = "select"]
                    [] outcome = "fresh" ->
                        [started EXCEPT !.objs = Append(cloned, written),
                                        !.nextState = Len(cloned) + 1, !.lastOk = written,
                                        !.i = @ + 1, !.pc = "select"]
                    [] outcome = "error" ->
                        AfterAgentError([started EXCEPT
                                        !.objs = [cloned EXCEPT ![inputState] = written],
                                        !.stopped = TRUE])
    /\ UNCHANGED <<kc, pl, gi, rg, overtaken, connVars, cacheVars, th>>

\* line 90: all sub-agents completed
SqFinish ==
    /\ sq.pc = "select"
    /\ sq.i > Len(sq.agents)
    /\ sq' = [sq EXCEPT !.pc = "done", !.ret = sq.nextState]
    /\ UNCHANGED <<kc, pl, gi, rg, overtaken, connVars, cacheVars, th>>

\* the caller's context is cancelled while Run is under way
SqCancel ==
    /\ sq.pc \in {"start", "select", "run"}
    /\ sq.ctx = "live"
    /\ sq' = [sq EXCEPT !.ctx = "cancelled"]
    /\ UNCHANGED <<kc, pl, gi, rg, overtaken, connVars, cacheVars, th>>

(***************************************************************************)
(* The package-level manager: InitializeMCP, GetMCPManager, ShutdownMCP.   *)
(* gi holds mcpManagerInitialized and mcpManagerMutex, and counts the      *)
(* managers created and the resets done so far; the manager itself is the  *)
(* variable globalMCPManager, "nil" or the identity of a created manager.  *)
(***************************************************************************)
GiIdle == [mcpManagerInitialized |-> FALSE, mcpManagerMutex |-> NoLock,
           created |-> 0, shutdowns |-> 0]

\* createMCPManagerInternal, lines 1094-1101, and createRealMCPManager, lines
\* 1219-1225: the n-th manager object, never an error
NewManager(n) == ToString(n)

\* mutant: the initialized flag is not consulted
InitializeOutcomeAlwaysCreates(g, manager) ==
    [gi |-> [g EXCEPT !.mcpManagerInitialized = TRUE, !.created = @ + 1],
     manager |-> NewManager(g.created + 1)]

\* lines 470-482: nothing when already initialized, else a manager is created
\* and published
InitializeOutcome(g, manager) ==
    IF g.mcpManagerInitialized
    THEN [gi |-> g, manager |-> manager]
    ELSE [gi |-> [g EXCEPT !.mcpManagerInitialized = TRUE, !.created = @ + 1],
          manager |-> NewManager(g.created + 1)]

\* line 467: mcpManagerMutex.Lock()
ImLock(t) ==
    /\ ~crashed
    /\ th[t].pc = "idle"
    /\ CanLock(gi.mcpManagerMutex)
    /\ gi' = [gi EXCEPT !.mcpManagerMutex.writer = t]
    /\ th' = [th EXCEPT ![t] = [IdleThread EXCEPT !.op = "InitializeMCP", !.pc = "im_check"]]
    /\ UNCHANGED <<kc, pl, sq, rg, overtaken, connVars, cacheVars>>

\* lines 468-485, the deferred Unlock included
ImBody(t) ==
    /\ ~crashed
    /\ th[t].pc = "im_check"
    /\ LET out == InitializeOutcome(gi, globalMCPManager)
       IN  /\ gi' = [out.gi EXCEPT !.mcpManagerMutex.writer = "none"]
           /\ globalMCPManager' = out.manager
    /\ th' = [th EXCEPT ![t] = Returned(th[t], "none", <<>>)]
    /\ UNCHANGED <<kc, pl, sq, rg, overtaken, connVars, ccfg, cmCaches, cmu, heap, now, crashed,
                   nHits, nMisses>>

\* GetMCPManager, lines 667-671, under the read lock
GetMCPManager(t) ==
    /\ ~crashed
    /\ th[t].pc = "idle"
    /\ CanRLock(gi.mcpManagerMutex)
    /\ th' = [th EXCEPT ![t] = Returned(
                [IdleThread EXCEPT !.op = "GetMCPManager"], "none", globalMCPManager)]
    /\ UNCHANGED <<keyVars, connVars, cacheVars>>

\* ShutdownMCP, lines 1037-1049: the globals are read without the lock, and a
\* manager that is there is disconnected; a read while InitializeMCP is about
\* to write the global is a data race
SmDisconnect(t) ==
    /\ ~crashed
    /\ th[t].pc = "idle"
    /\ gi.shutdowns < MaxShutdowns
    /\ connected' = IF globalMCPManager # "nil" THEN {} ELSE connected
    /\ crashed' \in (IF \E u \in Threads : th[u].pc = "im_check" /\ ~gi.mcpManagerInitialized
                     THEN BOOLEAN ELSE {FALSE})
    /\ th' = [th EXCEPT ![t] = [IdleThread EXCEPT !.op = "ShutdownMCP", !.pc = "sm_reset"]]
    /\ UNCHANGED <<keyVars, config, tools, mu, globalMCPManager, ccfg, cmCaches, cmu, heap,
                   now, nHits, nMisses>>

\* lines 1051-1076: the manager and its flag are reset under the lock
SmReset(t) ==
    /\ ~crashed
    /\ th[t].pc = "sm_reset"
    /\ CanLock(gi.mcpManagerMutex)
    /\ globalMCPManager' = "nil"
    /\ gi' = [gi EXCEPT !.mcpManagerInitialized = FALSE, !.shutdowns = @ + 1]
    /\ th' = [th EXCEPT ![t] = Returned(th[t], "none", <<>>)]
    /\ UNCHANGED <<kc, pl, sq, rg, overtaken, connVars, ccfg, cmCaches, cmu, heap, now, crashed,
                   nHits, nMisses>>

(***************************************************************************)
(* realFunctionToolRegistry, lines 1946-1991.  rg.tools is the map from    *)
(* names to tools; every operation holds r.mu from its first statement to  *)
(* its return, so each is one step.  A tool is NilTool or an object with   *)
(* an identity and the name its Name method returns.                       *)
(***************************************************************************)
NilTool == [id |-> 0, name |-> <<>>]

FunctionTools == {NilTool} \cup [id : 1..MaxTools, name : {<<>>, ta, tb}]

RgIdle == [tools |-> <<>>, op |-> "none", tool |-> NilTool, name |-> <<>>,
           err |-> "none", res |-> <<>>]

\* mutant: a name that is already registered is registered again
RegisterOverwrites(registered, tool) ==
    IF tool = NilTool THEN [err |-> "tool cannot be nil", tools |-> registered]
    ELSE IF tool.name = <<>> THEN [err |-> "tool name cannot be empty", tools |-> registered]
    ELSE [err |-> "none", tools |-> MapSet(registered, tool.name, tool)]

\* Register, lines 1957-1977
Register(registered, tool) ==
    IF tool = NilTool THEN [err |-> "tool cannot be nil", tools |-> registered]
    ELSE IF tool.name = <<>> THEN [err |-> "tool name cannot be empty", tools |-> registered]
    ELSE IF tool.name \in DOMAIN registered
         THEN [err |-> "already registered", tools |-> registered]
    ELSE [err |-> "none", tools |-> MapSet(registered, tool.name, tool)]

RgRegister ==
    \E tool \in FunctionTools :
        LET out == Register(rg.tools, tool)
        IN  /\ rg' = [RgIdle EXCEPT !.tools = out.tools, !.op = "Register", !.tool = tool,
                                    !.err = out.err]
            /\ UNCHANGED <<kc, pl, sq, gi, overtaken, connVars, cacheVars, th>>

\* Get, lines 1979-1985: the tool and whether it is there
RgGet ==
    \E name \in {<<>>, ta, tb} :
        /\ rg' = [RgIdle EXCEPT !.tools = rg.tools, !.op = "Get", !.name = name,
                                !.res = IF name \in DOMAIN rg.tools
                                        THEN <<rg.tools[name], TRUE>>
                                        ELSE <<NilTool, FALSE>>]
        /\ UNCHANGED <<kc, pl, sq, gi, overtaken, connVars, cacheVars, th>>

\* List, lines 1987-1997: the names in the order the map iteration gives them
RgList ==
    \E names \in Enumerations(DOMAIN rg.tools) :
        /\ rg' = [RgIdle EXCEPT !.tools = rg.tools, !.op = "List", !.res = names]
        /\ UNCHANGED <<kc, pl, sq, gi, overtaken, connVars, cacheVars, th>>

(***************************************************************************)
(* Specifications                                                          *)
(***************************************************************************)
InitKey ==
    /\ \E a \in ArgMaps : \E o \in Enumerations(DOMAIN a) :
            kc = [KcIdle EXCEPT !.phase = "input", !.a = a, !.b = a, !.ordA = o, !.ordB = o]
    /\ pl = PlIdle
    /\ sq = SqIdle
    /\ gi = GiIdle
    /\ rg = RgIdle
    /\ overtaken = {}
    /\ config = <<>>
    /\ connected = {}
    /\ tools = <<>>
    /\ mu = NoLock
    /\ th = [t \in Threads |-> IdleThread]
    /\ globalMCPManager = "real"
    /\ ccfg = CacheConfig(TRUE)
    /\ cmCaches = <<>>
    /\ cmu = NoLock
    /\ heap = <<>>
    /\ now = 0
    /\ crashed = FALSE
    /\ nHits = 0
    /\ nMisses = 0

NextKey ==
    \/ KeyChangeCase
    \/ KeyChangeSpace
    \/ ValueChangeSpace
    \/ KeyReorder
    \/ KeyGenerate

SpecKey == InitKey /\ [][NextKey]_vars

\* createRealMCPManager, lines 1219-1225
InitConn ==
    /\ kc = KcIdle
    /\ pl = PlIdle
    /\ sq = SqIdle
    /\ gi = GiIdle
    /\ rg = RgIdle
    /\ overtaken = {}
    /\ config \in Configs
    /\ connected = {}
    /\ tools = <<>>
    /\ mu = NoLock
    /\ th = [t \in Threads |-> IdleThread]
    /\ globalMCPManager = "real"
    /\ ccfg = CacheConfig(TRUE)
    /\ cmCaches = <<>>
    /\ cmu = NoLock
    /\ heap = <<>>
    /\ now = 0
    /\ crashed = FALSE
    /\ nHits = 0
    /\ nMisses = 0

StepConn(t) ==
    \/ ConnectEnter(t)
    \/ ConnectDial(t)
    \/ Disconnect(t)
    \/ DisconnectAll(t)
    \/ DsStart(t)
    \/ DsRecord(t)
    \/ ListConnectedServers(t)
    \/ GetServerInfo(t)
    \/ GetAvailableTools(t)
    \/ RtClear(t)
    \/ RtCheck(t)
    \/ RtAppend(t)
    \/ RtEnd(t)
    \/ HcProbe(t)
    \/ HcRecord(t)
    \/ ExecuteToolCall(t)
    \/ EtBegin(t)
    \/ EtCall(t)
    \/ Return(t)

NextConn == \E t \in Threads : StepConn(t)

SpecConn == InitConn /\ [][NextConn]_vars


(* GenerateCacheKey on two argument maps chosen independently, over        *)
(* strings that contain the separators generateArgHash writes              *)
\* "a", "b"
HashKeyStrings == { <<97>>, <<98>> }
\* "1", "2", "1|b=2"
HashValStrings == { <<49>>, <<50>>, <<49, 124, 98, 61, 50>> }

HashArgMaps ==
    UNION { [D -> HashValStrings] :
                D \in { X \in SUBSET HashKeyStrings : Cardinality(X) <= MaxArgs } }

InitHash ==
    /\ \E a \in HashArgMaps, b \in HashArgMaps :
        \E oa \in Enumerations(DOMAIN a), ob \in Enumerations(DOMAIN b) :
            kc = [KcIdle EXCEPT !.phase = "input", !.a = a, !.b = b,
                                !.ordA = oa, !.ordB = ob]
    /\ pl = PlIdle
    /\ sq = SqIdle
    /\ gi = GiIdle
    /\ rg = RgIdle
    /\ overtaken = {}
    /\ config = <<>>
    /\ connected = {}
    /\ tools = <<>>
    /\ mu = NoLock
    /\ th = [t \in Threads |-> IdleThread]
    /\ globalMCPManager = "real"
    /\ ccfg = CacheConfig(TRUE)
    /\ cmCaches = <<>>
    /\ cmu = NoLock
    /\ heap = <<>>
    /\ now = 0
    /\ crashed = FALSE
    /\ nHits = 0
    /\ nMisses = 0

NextHash == KeyGenerate

SpecHash == InitHash /\ [][NextHash]_vars

(* One goroutine refreshes the catalog while the other uses the manager's  *)
(* other operations                                                        *)
StepRefresher(t) ==
    \/ RtClear(t)
    \/ RtCheck(t)
    \/ RtAppend(t)
    \/ RtEnd(t)

StepManager(t) ==
    \/ ConnectEnter(t)
    \/ ConnectDial(t)
    \/ Disconnect(t)
    \/ DisconnectAll(t)
    \/ DsStart(t)
    \/ DsRecord(t)
    \/ GetAvailableTools(t)
    \/ HcProbe(t)
    \/ HcRecord(t)
    \/ Return(t)

NextRefresh == StepRefresher("t1") \/ (\E t \in Threads : StepManager(t))

SpecRefresh == InitConn /\ [][NextRefresh]_vars

\* the catalog after a RefreshTools that reached both servers
FullCatalog == ConvertTools(s1) \o ConvertTools(s2)

(* createRealMCPCacheManager, lines 1694-1699, next to a manager that has  *)
(* refreshed its catalog (and may have been disconnected from s2 since),   *)
(* or with no manager initialised                                          *)
InitCache ==
    /\ kc = KcIdle
    /\ pl = PlIdle
    /\ sq = SqIdle
    /\ gi = GiIdle
    /\ rg = RgIdle
    /\ overtaken = {}
    /\ config = <<Server(s1, "tcp", TRUE), Server(s2, "tcp", TRUE)>>
    /\ \/ globalMCPManager = "real" /\ tools = FullCatalog /\ connected \in {{s1, s2}, {s1}}
       \/ globalMCPManager = "nil" /\ tools = <<>> /\ connected = {}
    /\ mu = NoLock
    /\ th = [t \in Threads |-> IdleThread]
    /\ ccfg \in CacheConfigs
    /\ cmCaches = <<>>
    /\ cmu = NoLock
    /\ heap = <<>>
    /\ now = 0
    /\ crashed = FALSE
    /\ nHits = 0
    /\ nMisses = 0

StepCache(t) ==
    \/ EwcBegin(t)
    \/ GetEnter(t)
    \/ GetBody(t)
    \/ EtBegin(t)
    \/ EtCall(t)
    \/ EwcStore(t)
    \/ GetGlobalStats(t)
    \/ Configure(t)
    \/ Return(t)

NextCache == (\E t \in Threads : StepCache(t)) \/ Tick

SpecCache == InitCache /\ [][NextCache]_vars

(* A cache manager that serves calls and invalidations, next to a manager  *)
(* connected to both servers                                               *)
InitInvalidate ==
    /\ kc = KcIdle
    /\ pl = PlIdle
    /\ sq = SqIdle
    /\ gi = GiIdle
    /\ rg = RgIdle
    /\ overtaken = {}
    /\ config = <<Server(s1, "tcp", TRUE), Server(s2, "tcp", TRUE)>>
    /\ globalMCPManager = "real"
    /\ tools = FullCatalog
    /\ connected = {s1, s2}
    /\ mu = NoLock
    /\ th = [t \in Threads |-> IdleThread]
    /\ ccfg = CacheConfig(TRUE)
    /\ cmCaches = <<>>
    /\ cmu = NoLock
    /\ heap = <<>>
    /\ now = 0
    /\ crashed = FALSE
    /\ nHits = 0
    /\ nMisses = 0

StepInvalidate(t) ==
    \/ EwcBegin(t)
    \/ GetEnter(t)
    \/ GetBody(t)
    \/ EtBegin(t)
    \/ EtCall(t)
    \/ EwcStore(t)
    \/ IbpStart(t)
    \/ IbpClear(t)
    \/ Return(t)

NextInvalidate == (\E t \in Threads : StepInvalidate(t)) \/ Tick

SpecInvalidate == InitInvalidate /\ [][NextInvalidate]_vars

\* a single caller
NextInvalidateAlone == StepInvalidate("t1") \/ IbpAgain("t1") \/ Tick

SpecInvalidateAlone == InitInvalidate /\ [][NextInvalidateAlone]_vars

\* newRealMCPCache: one cache, object 1
InitToolCache ==
    /\ kc = KcIdle
    /\ pl = PlIdle
    /\ sq = SqIdle
    /\ gi = GiIdle
    /\ rg = RgIdle
    /\ overtaken = {}
    /\ config = <<>>
    /\ connected = {}
    /\ tools = <<>>
    /\ mu = NoLock
    /\ th = [t \in Threads |-> IdleThread]
    /\ globalMCPManager = "nil"
    /\ ccfg = CacheConfig(TRUE)
    /\ cmCaches = <<>>
    /\ cmu = NoLock
    /\ heap = <<NewCache>>
    /\ now = 0
    /\ crashed = FALSE
    /\ nHits = 0
    /\ nMisses = 0

StepToolCache(t) ==
    \/ CacheSet(t)
    \/ CacheGet(t)
    \/ GetBody(t)
    \/ Return(t)

NextToolCache == (\E t \in Threads : StepToolCache(t)) \/ Tick

SpecToolCache == InitToolCache /\ [][NextToolCache]_vars

\* every operation of one cache, called by two goroutines
StepCacheOps(t) ==
    \/ CacheSet(t)
    \/ CacheGet(t)
    \/ GetBody(t)
    \/ ExistsEnter(t)
    \/ ExistsBody(t)
    \/ CacheDelete(t)
    \/ CacheClear(t)
    \/ CacheCleanup(t)
    \/ Return(t)

NextCacheOps == (\E t \in Threads : StepCacheOps(t)) \/ Tick

SpecCacheOps == InitToolCache /\ [][NextCacheOps]_vars

\* GetCache and Shutdown on a new cache manager, called by two goroutines
StepPairs(t) ==
    \/ GetCacheCall(t)
    \/ Shutdown(t)
    \/ Return(t)

NextPairs == \E t \in Threads : StepPairs(t)

SpecPairs == InitCache /\ [][NextPairs]_vars

\* ExecuteWithCache for invocations that name their server
StepNamed(t) ==
    \/ EwcBeginNamed(t)
    \/ GetEnter(t)
    \/ GetBody(t)
    \/ EtBegin(t)
    \/ EtCall(t)
    \/ EwcStore(t)
    \/ Return(t)

NextNamed == (\E t \in Threads : StepNamed(t)) \/ Tick

SpecNamed == InitCache /\ [][NextNamed]_vars

\* ParseLLMToolCalls on each of the texts
InitParse ==
    /\ kc = KcIdle
    /\ pl \in { [PlIdle EXCEPT !.phase = "input", !.content = c] : c \in Texts }
    /\ sq = SqIdle
    /\ gi = GiIdle
    /\ rg = RgIdle
    /\ overtaken = {}
    /\ config = <<>>
    /\ connected = {}
    /\ tools = <<>>
    /\ mu = NoLock
    /\ th = [t \in Threads |-> IdleThread]
    /\ globalMCPManager = "real"
    /\ ccfg = CacheConfig(TRUE)
    /\ cmCaches = <<>>
    /\ cmu = NoLock
    /\ heap = <<>>
    /\ now = 0
    /\ crashed = FALSE
    /\ nHits = 0
    /\ nMisses = 0

NextParse ==
    \/ ParseSplit
    \/ ParsePart
    \/ ParseReturn

SpecParse == InitParse /\ [][NextParse]_vars

\* one Run of a SequentialAgent made by NewSequentialAgent, on a state that
\* holds no data yet, with a context that is live or already cancelled
InitSequence ==
    /\ kc = KcIdle
    /\ pl = PlIdle
    /\ \E given \in GivenAgents, c \in Contexts :
            sq = [SqIdle EXCEPT !.pc = "start", !.agents = NewSequentialAgent(given),
                                !.ctx = c, !.objs = << <<>> >>, !.initialState = 1,
                                !.given = given]
    /\ gi = GiIdle
    /\ rg = RgIdle
    /\ overtaken = {}
    /\ config = <<>>
    /\ connected = {}
    /\ tools = <<>>
    /\ mu = NoLock
    /\ th = [t \in Threads |-> IdleThread]
    /\ globalMCPManager = "real"
    /\ ccfg = CacheConfig(TRUE)
    /\ cmCaches = <<>>
    /\ cmu = NoLock
    /\ heap = <<>>
    /\ now = 0
    /\ crashed = FALSE
    /\ nHits = 0
    /\ nMisses = 0

NextSequence ==
    \/ SqEnter
    \/ SqSelect
    \/ SqRun
    \/ SqFinish
    \/ SqCancel

SpecSequence == InitSequence /\ [][NextSequence]_vars


(* Goroutines initialize, read and shut down the package-level manager     *)
InitGlobal ==
    /\ kc = KcIdle
    /\ pl = PlIdle
    /\ sq = SqIdle
    /\ gi = GiIdle
    /\ rg = RgIdle
    /\ overtaken = {}
    /\ config = <<>>
    /\ connected = {}
    /\ tools = <<>>
    /\ mu = NoLock
    /\ th = [t \in Threads |-> IdleThread]
    /\ globalMCPManager = "nil"
    /\ ccfg = CacheConfig(TRUE)
    /\ cmCaches = <<>>
    /\ cmu = NoLock
    /\ heap = <<>>
    /\ now = 0
    /\ crashed = FALSE
    /\ nHits = 0
    /\ nMisses = 0

StepGlobal(t) ==
    \/ ImLock(t)
    \/ ImBody(t)
    \/ GetMCPManager(t)
    \/ SmDisconnect(t)
    \/ SmReset(t)
    \/ Return(t)

NextGlobal == \E t \in Threads : StepGlobal(t)

SpecGlobal == InitGlobal /\ [][NextGlobal]_vars

(* Calls of a registry created by createRealFunctionToolRegistry, lines    *)
(* 1951-1955                                                               *)
NextRegistry ==
    \/ RgRegister
    \/ RgGet
    \/ RgList

SpecRegistry == InitGlobal /\ [][NextRegistry]_vars

(***************************************************************************)
(* Claims                                                                  *)
(***************************************************************************)
\* every entry of every per-pair cache
AllEntries == UNION {{heap[c].data[k] : k \in DOMAIN heap[c].data} : c \in DOMAIN heap}

\* thread t's ExecuteWithCache returns in this step
EwcReturns(t) ==
    /\ th[t].op = "ExecuteWithCache"
    /\ th[t].pc \notin {"done", "idle"}
    /\ th'[t].pc = "done"

\* this step stores nothing: each entry held after it was held before it
NothingStored ==
    \A c \in DOMAIN heap' : \A k \in DOMAIN heap'[c].data :
        /\ c \in DOMAIN heap
        /\ k \in DOMAIN heap[c].data
        /\ heap'[c].data[k] = heap[c].data[k]

(* C1: failures are never cached.  After every step of any interleaving of *)
(* ExecuteWithCache calls, each entry of each per-pair cache wraps a       *)
(* result with Success = TRUE, and a call that returns an error or a       *)
(* result with Success = FALSE returns without storing an entry.           *)
C1_FailuresNeverCached ==
    [][ /\ \A e \in AllEntries' : e.Result.Success
        /\ \A t \in Threads :
             (EwcReturns(t) /\ (th'[t].err # "none" \/ ~th'[t].res.Success))
                => NothingStored ]_vars

\* a call came back with an unsuccessful result and its key is not cached,
\* while the cache holds the result of another call
C1_Witness ==
    \E t \in Threads :
        /\ th[t].op = "ExecuteWithCache"
        /\ th[t].pc = "done"
        /\ th[t].err = "none"
        /\ th[t].exec
        /\ ~th[t].res.Success
        /\ th[t].key \notin DOMAIN heap[th[t].cache].data
        /\ heap[th[t].cache].data # <<>>

\* thread t is about to look its key up and the entry is there and not expired
LiveEntryFor(t) ==
    /\ th[t].pc = "get_body"
    /\ th[t].key \in DOMAIN heap[th[t].cache].data
    /\ now - heap[th[t].cache].data[th[t].key].Timestamp
            <= heap[th[t].cache].data[th[t].key].TTL

(* C2: with caching enabled, an ExecuteWithCache call whose key holds an   *)
(* entry stored by an earlier call, the TTL not yet elapsed, returns that  *)
(* entry's result and does not execute the tool: the lookup step ends the  *)
(* call, with no error, with the stored result, the executeTool path not   *)
(* entered, and the entry still in place.                                  *)
C2_HitReturnsStoredResultWithoutExecuting ==
    [][ \A t \in Threads :
          (th[t].op = "ExecuteWithCache" /\ LiveEntryFor(t) /\ th'[t] # th[t])
            => /\ th'[t].pc = "done"
               /\ th'[t].err = "none"
               /\ th'[t].res = heap[th[t].cache].data[th[t].key].Result
               /\ ~th'[t].exec
               /\ heap'[th[t].cache].data = heap[th[t].cache].data ]_vars

\* a call has returned the stored result of an earlier call without executing
C2_Witness ==
    \E t \in Threads :
        /\ th[t].op = "ExecuteWithCache"
        /\ th[t].pc = "done"
        /\ th[t].err = "none"
        /\ ~th[t].exec
        /\ th[t].key \in DOMAIN heap[th[t].cache].data
        /\ th[t].res = heap[th[t].cache].data[th[t].key].Result
        /\ heap[th[t].cache].data[th[t].key].via = "ExecuteWithCache"
        /\ nHits > 0

\* thread t's Get finds an entry for its key
GetFinds(t) ==
    /\ th[t].op = "Get"
    /\ th[t].pc = "get_body"
    /\ th'[t].pc = "done"
    /\ th[t].key \in DOMAIN heap[1].data

(* C6: the TTL boundary of Get on a ToolCache.  A Get of a key that Set    *)
(* stored returns the entry, and leaves the cache as it is, as long as the *)
(* entry's age is at most its ttl; a Get made when the age is greater than *)
(* the ttl returns a miss, removes the entry, and the number of entries    *)
(* goes down by one.                                                       *)
C6_TTLBoundary ==
    [][ \A t \in Threads : GetFinds(t) =>
          LET entry == heap[1].data[th[t].key]
              age   == now - entry.Timestamp
          IN /\ age <= entry.TTL =>
                  /\ th'[t].err = "none"
                  /\ th'[t].res = <<entry>>
                  /\ heap'[1].data = heap[1].data
             /\ age > entry.TTL =>
                  /\ th'[t].err = "cache expired"
                  /\ th'[t].res = <<>>
                  /\ th[t].key \notin DOMAIN heap'[1].data
                  /\ Cardinality(DOMAIN heap'[1].data)
                        = Cardinality(DOMAIN heap[1].data) - 1 ]_vars

\* one Get has returned "cache expired" and removed its entry; another has
\* returned an entry whose age is exactly its ttl, which is still cached
C6_Witness ==
    \E t \in Threads :
        /\ th[t].op = "Get"
        /\ th[t].pc = "done"
        /\ th[t].err = "cache expired"
        /\ th[t].key \notin DOMAIN heap[1].data
        /\ \E k \in DOMAIN heap[1].data : now - heap[1].data[k].Timestamp = heap[1].data[k].TTL
        /\ \E u \in Threads \ {t} :
             /\ th[u].op = "Get"
             /\ th[u].pc = "done"
             /\ th[u].err = "none"
             /\ th[u].res # <<>>
             /\ now - th[u].res[1].Timestamp = th[u].res[1].TTL

(* C7: after n hits and m misses served by ExecuteWithCache on one cache   *)
(* manager, GetGlobalStats reports hit count n, miss count m and hit rate  *)
(* n/(n+m), and hit rate 0 when n+m = 0.                                   *)
C7_StatsCountHitsAndMisses ==
    \A t \in Threads :
        (th[t].op = "GetGlobalStats" /\ th[t].pc = "done") =>
            LET stats  == th[t].res[1]
                served == th[t].res[2]
            IN /\ stats.HitCount = served.hits
               /\ stats.MissCount = served.misses
               /\ stats.HitRateNum * (IF served.hits + served.misses > 0
                                      THEN served.hits + served.misses ELSE 1)
                    = (IF served.hits + served.misses > 0 THEN served.hits ELSE 0)
                        * stats.HitRateDen


(* C3: GenerateCacheKey yields the same key (same hash, same cache entry)  *)
(* for two argument maps that differ only in the letter case of keys, in   *)
(* whitespace around keys or values, or in enumeration order.              *)
C3_KeyIgnoresCaseSpaceOrder ==
    kc.phase = "done" =>
        /\ kc.keyA.Hash = kc.keyB.Hash
        /\ keyToString(kc.keyA) = keyToString(kc.keyB)

(* C4: a GetAvailableTools call that ran while a RefreshTools was in       *)
(* progress returned the catalog from before that refresh or the catalog   *)
(* the refresh produced, never an intermediate one.  Stated when the       *)
(* refresh has returned and no other refresh is running.                   *)
C4_ReaderSeesOldOrNewCatalog ==
    \A t \in Threads : \A u \in th[t].during :
        (/\ th[t].op = "GetAvailableTools"
         /\ th[t].pc = "done"
         /\ th[u].pc = "done"
         /\ Refreshing = {})
        => th[t].res \in {th[u].old, tools}

(* C5: executeTool for a tool of the catalog whose server is not marked    *)
(* connected connects and returns; it never waits for the manager's write  *)
(* lock while holding that lock itself, a wait that cannot end.            *)
C5_ExecuteToolNeverWaitsOnOwnLock ==
    \A t \in Threads :
        (th[t].op = "executeTool" /\ th[t].pc = "connect") => t \notin mu.readers

(* C8: Connect returns not-configured for an unknown name, unsupported     *)
(* type for a configured server that is not tcp and connection-failed when *)
(* the dial fails, in all three cases leaving the connected set unchanged; *)
(* a server becomes connected only by a successful dial to it.             *)
Configured(s) == \E j \in DOMAIN config : config[j].Name = s
ConfiguredTcp(s) == \E j \in DOMAIN config : config[j].Name = s /\ config[j].Type = "tcp"

C8_ConnectErrors ==
    [][\A t \in Threads :
        (th[t].pc = "dialing" /\ th'[t].pc # "dialing") =>
            LET s == th[t].srv
                e == th'[t].err
            IN /\ ~Configured(s) => e = "not_configured"
               /\ (Configured(s) /\ ~ConfiguredTcp(s)) => e = "unsupported_type"
               /\ (ConfiguredTcp(s) /\ th'[t].dial = "fail") => e = "connection_failed"
               /\ (ConfiguredTcp(s) /\ th'[t].dial = "ok") => e = "none"
               /\ e # "none" => connected' = connected
               /\ connected' # connected =>
                    (th'[t].dial = "ok" /\ connected' = connected \cup {s})
               /\ e = "none" => s \in connected']_vars

\* a dial to a server that is marked connected has failed
C8_Witness ==
    \E t \in Threads :
        /\ th[t].op = "Connect"
        /\ th[t].pc = "done"
        /\ th[t].err = "connection_failed"
        /\ th[t].srv \in connected

(* C9: when the Connect attempt of a HealthCheck fails, which HealthCheck  *)
(* reports as unhealthy, the server is no longer marked connected.         *)
C9_UnhealthyIsDisconnected ==
    [][\A t \in Threads :
        (/\ th[t].op = "HealthCheck"
         /\ th[t].pc = "dialing"
         /\ th'[t].pc = "ret"
         /\ HealthStatus(th'[t].err) = "unhealthy")
        => th[t].srv \notin connected']_vars

(* C10: DiscoverServers returns no error and exactly one ServerInfo per    *)
(* enabled configured server, in order, none for a disabled one; a status  *)
(* is connected iff the Connect attempt succeeded, otherwise unavailable.  *)
EnabledServers == SelectSeq(config, LAMBDA c : c.Enabled)

C11_RefreshErrorIffNoServers ==
    \A t \in Threads :
        (th[t].op = "RefreshTools" /\ th[t].pc = "done") =>
            (th[t].err = "none" <=> Len(config) > 0)

\* the tools of the listed servers, in that order
RECURSIVE CatalogOf(_)
CatalogOf(servers) ==
    IF servers = <<>> THEN <<>>
    ELSE ConvertTools(Head(servers)) \o CatalogOf(Tail(servers))

\* thread t's call of operation op returns in this step
Completes(t, op) ==
    /\ th[t].op = op
    /\ th[t].pc # "done"
    /\ th'[t].pc = "done"

(* C12: in RefreshTools, DiscoverServers and HealthCheck a server whose    *)
(* Connect fails does not end the loop: the call goes on to the next       *)
(* enabled server, or returns when none is left.  When RefreshTools        *)
(* returns, the catalog holds the tools of every server that answered the  *)
(* tool-list request, in configuration order; HealthCheck and              *)
(* DiscoverServers return an entry for every enabled server.               *)
C12_FailedServerDoesNotStopTheRest ==
    [][\A t \in Threads :
        /\ (/\ th[t].op \in {"RefreshTools", "DiscoverServers", "HealthCheck"}
            /\ th[t].pc = "ret"
            /\ th[t].err # "none"
            /\ th'[t] # th[t])
           => LET nxt == NextEnabled(th[t].i + 1)
              IN IF nxt <= Len(config)
                 THEN th'[t].i = nxt /\ th'[t].pc \in {"connect", "hc_loop"}
                 ELSE th'[t].pc \in {"rt_end", "done"}
        /\ Completes(t, "RefreshTools") => tools' = CatalogOf(th'[t].answered)
        /\ Completes(t, "HealthCheck")
              => DOMAIN th'[t].res = {EnabledServers[k].Name : k \in DOMAIN EnabledServers}
        /\ Completes(t, "DiscoverServers")
              => Len(th'[t].res) = Len(EnabledServers)]_vars

\* a refresh has returned with the tools of the second server after the
\* Connect to the first one failed
C12_Witness ==
    \E t \in Threads :
        /\ th[t].op = "RefreshTools"
        /\ th[t].pc = "done"
        /\ th[t].answered = <<s2>>
        /\ tools = ConvertTools(s2)
        /\ s1 \notin connected

\* thread t calls operation op in this step
Calls(t, op) ==
    /\ th[t].pc = "idle"
    /\ th'[t].op = op

(* C19: Disconnect and DisconnectAll always return no error.  Disconnect   *)
(* of any server name, connected, not connected or not configured, leaves  *)
(* that server not connected and every other server's connected state and  *)
(* the tool catalog as they were; on a server that is not connected it     *)
(* changes nothing.  DisconnectAll leaves no server connected and the      *)
(* catalog as it was.                                                      *)
C19_DisconnectIdempotent ==
    [][\A t \in Threads :
        /\ Calls(t, "Disconnect") =>
              /\ th'[t].pc = "done"
              /\ th'[t].err = "none"
              /\ th'[t].srv \notin connected'
              /\ connected' \ {th'[t].srv} = connected \ {th'[t].srv}
              /\ th'[t].srv \notin connected => connected' = connected
              /\ tools' = tools
        /\ Calls(t, "DisconnectAll") =>
              /\ th'[t].pc = "done"
              /\ th'[t].err = "none"
              /\ connected' = {}
              /\ tools' = tools]_vars

\* a second Disconnect of the same server has returned while another
\* server is connected and the catalog is not empty
C19_Witness ==
    /\ \A t \in Threads :
        /\ th[t].op = "Disconnect"
        /\ th[t].pc = "done"
        /\ th[t].srv = s1
    /\ connected = {s2}
    /\ tools # <<>>

(* C20: Connect invoked with a cancelled context returns a cancellation    *)
(* error and does not mark the server connected.                           *)
C20_CancelledConnectIsAborted ==
    [][\A t \in Threads :
        (/\ th[t].op = "Connect"
         /\ th[t].ctx = "cancelled"
         /\ th[t].pc = "dialing"
         /\ th'[t].pc = "done")
        => /\ th'[t].err = "cancelled"
           /\ connected' = connected]_vars

(* C13: two ExecuteWithCache calls for the same key that both miss may     *)
(* both execute the tool and both store.  Each store of a successful       *)
(* result files that result under the key in place of whatever was there:  *)
(* afterwards the cache holds one entry for the key, the storing call's    *)
(* result stamped with the time of the store, and the entries of the other *)
(* keys are as before.  So the entry is that of the store that came last.  *)
C13_LastStoreWins ==
    [][\A t \in Threads :
        (/\ th[t].pc = "ewc_store"
         /\ th'[t].pc = "done"
         /\ ccfg.Enabled
         /\ th[t].res.Success)
        => LET c == th[t].cache
               k == th[t].key
           IN /\ DOMAIN heap'[c].data = DOMAIN heap[c].data \cup {k}
              /\ heap'[c].data[k].Result = th[t].res
              /\ heap'[c].data[k].Timestamp = now
              /\ \A x \in DOMAIN heap[c].data \ {k} :
                    heap'[c].data[x] = heap[c].data[x]]_vars

\* both callers missed on the same key, executed, got different successful
\* results and stored them; the entry is the result of one of them
C13_Witness ==
    /\ \A t \in Threads :
        /\ th[t].op = "ExecuteWithCache"
        /\ th[t].pc = "done"
        /\ th[t].exec
        /\ th[t].err = "none"
        /\ th[t].res.Success
    /\ th["t1"].key = th["t2"].key
    /\ th["t1"].cache = th["t2"].cache
    /\ th["t1"].res # th["t2"].res
    /\ nMisses = 2
    /\ nHits = 0
    /\ ccfg.Enabled
    /\ th["t1"].key \in DOMAIN heap[th["t1"].cache].data
    /\ heap[th["t1"].cache].data[th["t1"].key].Result = th["t2"].res

(* C16: ExecuteWithCache stores a successful result with the TTL that the  *)
(* per-tool overrides configure for the tool name when there is one, and   *)
(* with the default TTL only when there is none.                           *)
C16_StoredWithToolTTL ==
    \A e \in AllEntries :
        e.via = "ExecuteWithCache" =>
            e.TTL = IF e.Result.ToolName \in DOMAIN ccfg.ToolTTLs
                    THEN ccfg.ToolTTLs[e.Result.ToolName]
                    ELSE ccfg.DefaultTTL

(* C17: with caching disabled, ExecuteWithCache makes no lookup and goes   *)
(* straight to the execution (or fails for want of a manager), even when   *)
(* an unexpired entry is filed under the key; a result that was not        *)
(* produced by an execution is only ever returned by the lookup, and the   *)
(* lookup is only entered with caching enabled.                            *)
C17_DisabledNeverServesFromCache ==
    [][\A t \in Threads :
        /\ (Calls(t, "ExecuteWithCache") /\ ~ccfg.Enabled) =>
              \/ th'[t].pc = "et_begin"
              \/ th'[t].pc = "done" /\ th'[t].err = "manager_not_initialized"
        /\ (Calls(t, "ExecuteWithCache") /\ th'[t].pc = "get") => ccfg.Enabled
        /\ (EwcReturns(t) /\ th'[t].err = "none" /\ ~th'[t].exec)
              => th[t].pc = "get_body"]_vars

\* with caching disabled, a call has executed the tool and returned a result
\* other than the unexpired one filed under its key
C17_Witness ==
    \E t \in Threads :
        /\ ~ccfg.Enabled
        /\ nMisses >= 2
        /\ th[t].op = "ExecuteWithCache"
        /\ th[t].pc = "done"
        /\ th[t].err = "none"
        /\ th[t].exec
        /\ th[t].key \in DOMAIN heap[th[t].cache].data
        /\ ~Expired(heap[th[t].cache].data[th[t].key], now)
        /\ heap[th[t].cache].data[th[t].key].Result # th[t].res

(* C18: for a fixed tool and server, two argument maps that differ after   *)
(* normalization are serialized to different pre-digest strings and get    *)
(* different cache keys.                                                   *)
C18_DistinctArgsDistinctKeys ==
    (kc.phase = "done" /\ kc.keyA.Args # kc.keyB.Args) =>
        /\ HashInput(kc.a, SortStrings(kc.ordA)) # HashInput(kc.b, SortStrings(kc.ordB))
        /\ keyToString(kc.keyA) # keyToString(kc.keyB)

\* thread t's InvalidateByPattern returns in this step
IbpReturns(t) ==
    /\ th'[t].op = "InvalidateByPattern"
    /\ th'[t].pc = "done"
    /\ th'[t] # th[t]

\* the per-pair caches whose composite key contains the pattern
CachesContaining(pattern) ==
    {cmCaches[k] : k \in {x \in DOMAIN cmCaches : Contains(x, pattern)}}

(* C14: InvalidateByPattern is idempotent.  A call returns no error and    *)
(* leaves every matching per-pair cache empty; the same call made again    *)
(* straight after it returns no error either and leaves every cache as the *)
(* first call left it.                                                     *)
C14_InvalidateIdempotent ==
    [][\A t \in Threads :
        IbpReturns(t) =>
            /\ th'[t].err = "none"
            /\ \A c \in CachesContaining(th'[t].pattern) : heap'[c].data = <<>>
            /\ th'[t].n = 2 => CacheData' = th'[t].old]_vars

\* a repeated call has gone through the matching caches, found nothing to
\* remove, and returned, while a cache that does not match holds an entry
C14_Witness ==
    \E t \in Threads :
        /\ th[t].op = "InvalidateByPattern"
        /\ th[t].pc = "done"
        /\ th[t].n = 2
        /\ th[t].cleared # {}
        /\ th[t].wiped = {}
        /\ \E c \in DOMAIN heap : heap[c].data # <<>>

(* C15: InvalidateByPattern(pattern) empties exactly the per-pair caches   *)
(* whose composite key toolName:serverName contains the pattern.  Each of  *)
(* its steps empties one such cache and leaves every other cache's entries *)
(* as they were; when it returns it has emptied every cache that matches   *)
(* and no other.  A later ExecuteWithCache that finds its key gone         *)
(* executes the tool again.                                                *)
C15_InvalidateClearsExactlyMatching ==
    [][\A t \in Threads :
        /\ (th[t].pc = "ibp" /\ th'[t] # th[t]) =>
              \E c \in CachesContaining(th[t].pattern) :
                  /\ heap'[c].data = <<>>
                  /\ \A d \in DOMAIN heap \ {c} : heap'[d].data = heap[d].data
        /\ Calls(t, "InvalidateByPattern") => CacheData' = CacheData
        /\ IbpReturns(t) => th'[t].cleared = CachesContaining(th'[t].pattern)
        /\ (/\ th[t].op = "ExecuteWithCache"
            /\ th[t].pc = "get_body"
            /\ th[t].key \notin DOMAIN heap[th[t].cache].data
            /\ th'[t] # th[t])
           => th'[t].pc = "et_begin"]_vars

\* an invalidation has removed an entry and left the entries of a cache
\* that does not match; the other caller, whose key was removed, missed and
\* is executing the tool again
C15_Witness ==
    \E t \in Threads, u \in Threads :
        /\ th[t].op = "InvalidateByPattern"
        /\ th[t].pc = "done"
        /\ th[t].wiped # {}
        /\ \E c \in DOMAIN heap \ th[t].cleared : heap[c].data # <<>>
        /\ th[u].op = "ExecuteWithCache"
        /\ th[u].pc = "et_call"
        /\ <<th[u].cache, th[u].key>> \in th[t].wiped
        /\ th[u].key \notin DOMAIN heap[th[u].cache].data
        /\ nHits = 0
        /\ nMisses = 3

\* the positions of text at which the marker starts
MarkerStarts(text) ==
    { p \in 1..(Len(text) - Len(Marker) + 1) : SubSeq(text, p, p + Len(Marker) - 1) = Marker }

\* the JSON value read from the text that follows the marker at p
ValueAfter(text, p) == DecodeValue(SubSeq(text, p + Len(Marker), Len(text)), 1)

\* the marker at p is immediately followed by a well-formed JSON object
FollowedByObject(text, p) ==
    /\ p + Len(Marker) <= Len(text)
    /\ text[p + Len(Marker)] = 123
    /\ ValueAfter(text, p).ok

\* the objects that follow the markers of text at or after position p, in order
RECURSIVE ObjectsFrom(_, _)
ObjectsFrom(text, p) ==
    LET later == { q \in MarkerStarts(text) : q >= p }
    IN  IF later = {} THEN <<>>
        ELSE LET q == Least(later)
             IN  (IF FollowedByObject(text, q)
                  THEN <<ValueAfter(text, q).val.obj>> ELSE <<>>) \o ObjectsFrom(text, q + 1)

\* C21: ParseLLMToolCalls returns, in order of occurrence, exactly the decoded
\* objects of the marker occurrences that are immediately followed by a
\* well-formed JSON object: k such occurrences give k invocations, each with
\* the name and args of its object.
C21_OneCallPerWellFormedObject ==
    pl.phase = "done" => pl.toolCalls = ObjectsFrom(pl.content, 1)

\* C21 on texts without an empty object and without a brace inside a string
C21_PlainObjects ==
    (pl.phase = "done" /\ pl.content \in {Marker \o ObjSearch, Plain \o Marker \o ObjSearch \o Plain})
        => pl.toolCalls = ObjectsFrom(pl.content, 1)

\* the number of positions 1..e of part that hold code point c
CountUpTo(part, e, c) == Cardinality({ j \in 1..e : part[j] = c })

\* some closing brace of part is the last of as many closing as opening braces
HasBalancingBrace(part) ==
    \E e \in 1..Len(part) :
        part[e] = 125 /\ CountUpTo(part, e, 123) = CountUpTo(part, e, 125)

\* a marker segment that the parser has to pass over
Skipped(part) == ~HasPrefix(part, <<123>>) \/ ~HasBalancingBrace(part)

\* what the segments from the i-th on contribute when the skipped ones are left out
RECURSIVE CallsOfKept(_, _)
CallsOfKept(parts, i) ==
    IF i > Len(parts) THEN <<>>
    ELSE (IF Skipped(parts[i]) THEN <<>> ELSE PartCalls(parts[i])) \o CallsOfKept(parts, i + 1)

\* C22: text without the marker yields no invocation; a marker segment that
\* does not start with '{' or has no balancing closing brace contributes
\* nothing, and the other segments of the text are returned as if it were
\* not there.
C22_SkippedSegmentsContributeNothing ==
    pl.phase = "done" =>
        /\ (~Contains(pl.content, Marker) => pl.toolCalls = <<>>)
        /\ pl.toolCalls = CallsOfKept(Split(pl.content, Marker), 2)

\* a parsed text in which a segment without closing brace comes before a
\* well-formed one, which is returned
C22_Witness ==
    /\ pl.phase = "done"
    /\ pl.content = Marker \o ObjOpen \o Marker \o ObjSearch
    /\ Len(pl.toolCalls) = 1

\* thread t holds what executeTool returned to it
HoldsExecuted(t) ==
    /\ th[t].op \in {"executeTool", "ExecuteWithCache"}
    /\ th[t].exec
    /\ th[t].pc \in {"ewc_store", "done"}

\* C23: every result returned by tool execution has success equal to the
\* negation of the remote error flag, and every such result with
\* success = false carries a non-empty error message.
C23_FailedResultCarriesMessage ==
    \A t \in Threads :
        HoldsExecuted(t) =>
            /\ (th[t].remote # "none" => (th[t].res.Success <=> th[t].remote = "ok"))
            /\ (~th[t].res.Success => th[t].res.Error # "")

\* C23 for the results that executeTool returns together with a nil error
C23_AnsweredCalls ==
    \A t \in Threads :
        (HoldsExecuted(t) /\ th[t].err = "none") =>
            /\ th[t].remote # "none"
            /\ (th[t].res.Success <=> th[t].remote = "ok")
            /\ (~th[t].res.Success => th[t].res.Error # "")

\* the tool call itself failed after the session was set up
C23_CallFailed ==
    \E t \in Threads : HoldsExecuted(t) /\ th[t].err = "call_failed" /\ th[t].res.Error = ""

\* thread t's Exists returns in this step
ExistsReturns(t) ==
    /\ th[t].op = "Exists"
    /\ th[t].pc = "exists_body"
    /\ th'[t].pc = "done"

\* a Get of key k on cache c would return the entry now
GetWouldReturn(c, k) == k \in DOMAIN heap[c].data /\ ~Expired(heap[c].data[k], now)

\* C24: Exists applies the expiry check of Get: it answers true exactly when
\* a Get of the same key at the same moment would return the entry, and so
\* never for an entry whose age exceeds its ttl.
C24_ExistsAgreesWithGet ==
    [][\A t \in Threads :
        ExistsReturns(t) => th'[t].res = <<GetWouldReturn(th[t].cache, th[t].key)>>]_vars

\* thread t calls Set in this step
SetReturns(t) ==
    /\ th[t].pc = "idle"
    /\ th'[t].op = "Set"
    /\ th'[t].pc = "done"

\* C25: Set always overwrites: after Set(key, result, ttl) the cache holds one
\* entry for the key, with the new result, the new ttl, the creation time
\* now and accessCount 0, whatever it held for the key before, and the
\* entries of the other keys are as they were.
C25_SetOverwrites ==
    [][\A t \in Threads :
        SetReturns(t) =>
            LET k == th'[t].key
                c == th'[t].cache
            IN  /\ DOMAIN heap'[c].data = DOMAIN heap[c].data \cup {k}
                /\ heap'[c].data[k].Result = th'[t].arg[1]
                /\ heap'[c].data[k].TTL = th'[t].arg[2]
                /\ heap'[c].data[k].Timestamp = now
                /\ heap'[c].data[k].AccessCount = 0
                /\ \A x \in DOMAIN heap[c].data \ {k} : heap'[c].data[x] = heap[c].data[x]]_vars

\* a Set has just replaced an expired entry while another key holds an entry
C25_Witness ==
    \E t \in Threads :
        /\ th[t].op = "Set"
        /\ th[t].pc = "done"
        /\ th[t].old = <<"expired">>
        /\ th[t].key \in DOMAIN heap[1].data
        /\ heap[1].data[th[t].key].Timestamp = now
        /\ DOMAIN heap[1].data # {th[t].key}

\* C29: the entry map of a cache is mutated only under the cache's exclusive
\* lock: no step changes the entries of a cache while another thread is
\* inside that cache reading them.
C29_MutationsAreExclusive ==
    [][\A c \in DOMAIN heap :
        heap'[c].data # heap[c].data => Cardinality(heap[c].readers) <= 1]_vars

\* thread t holds the cache that GetCache returned to it since the last Shutdown
HoldsCache(t) ==
    /\ th[t].op = "GetCache"
    /\ th[t].pc = "done"
    /\ th[t].old # <<"stale">>

\* C26: between shutdowns the cache manager keeps one cache per
\* (toolName, serverName) pair: GetCache returns the same cache for the same
\* pair and never the same cache for two different pairs.
C26_OneCachePerPair ==
    \A t, u \in Threads :
        (HoldsCache(t) /\ HoldsCache(u)) =>
            (th[t].cache = th[u].cache <=> (th[t].tool = th[u].tool /\ th[t].xsrv = th[u].xsrv))

\* C26 for names that do not contain ':'
C26_PlainNames ==
    \A t, u \in Threads :
        (/\ HoldsCache(t) /\ HoldsCache(u)
         /\ {th[t].tool, th[u].tool} \subseteq {ta, tb}
         /\ {th[t].xsrv, th[u].xsrv} \subseteq {s1, s2}) =>
            (th[t].cache = th[u].cache <=> (th[t].tool = th[u].tool /\ th[t].xsrv = th[u].xsrv))

\* C27: SequentialAgent.Run halts as soon as a sub-agent returns an error or
\* the context is found cancelled before a sub-agent starts: Run has then
\* returned, with an error and with the state produced by the last sub-agent
\* that succeeded (the initial state if none did), and no later sub-agent
\* has run.
C27_HaltsOnErrorOrCancel ==
    sq.stopped =>
        /\ sq.pc = "done"
        /\ sq.err # "none"
        /\ sq.objs[sq.ret] = sq.lastOk
        /\ sq.ran = SubSeq(sq.agents, 1, Len(sq.ran))
        /\ Len(sq.ran) = IF sq.err = "agent" THEN sq.i ELSE sq.i - 1

\* the second of three sub-agents returned an error after the first succeeded
C27_Witness ==
    /\ sq.stopped
    /\ sq.err = "agent"
    /\ Len(sq.agents) = 3
    /\ sq.ran = SubSeq(sq.agents, 1, 2)
    /\ sq.objs[sq.ret] = <<sq.agents[1]>>

\* the context was found cancelled after the first sub-agent had succeeded
C27_WitnessCancelled ==
    /\ sq.stopped
    /\ sq.err = "cancelled"
    /\ Len(sq.ran) = 1
    /\ Len(sq.agents) > 1

\* thread t is inside Connect at the net.DialTimeout call for a tcp server
Dialing(t) ==
    /\ th[t].pc = "dialing"
    /\ FindServer(th[t].srv) # 0
    /\ config[FindServer(th[t].srv)].Type = "tcp"

\* C28: slow network I/O does not block catalog readers: while a Connect is
\* dialing a server, a GetAvailableTools call of another goroutine can
\* complete without waiting for the dial to finish.
C28_ReadersNotBlockedByDial ==
    \A t, u \in Threads :
        (Dialing(t) /\ u # t /\ th[u].pc = "idle") => ENABLED GetAvailableTools(u)

\* C30: an invocation that names a server is executed on that server, so
\* every result cached under (toolName, serverName) was produced by that
\* server, also when another server of the catalog offers a tool of the
\* same name.
C30_CachedResultComesFromNamedServer ==
    \A key \in DOMAIN cmCaches :
        \A k \in DOMAIN heap[cmCaches[key]].data :
            LET result == heap[cmCaches[key]].data[k].Result
            IN  PairKey(result.ToolName, result.ServerName) = key

\* C31: once InvalidateByPattern has returned, a cache it cleared holds no
\* result of an execution that started before the invalidation: a caller of
\* ExecuteWithCache that was in flight on the cache when it was cleared does
\* not store its result there.
C31_NoStaleRepopulation ==
    \A p \in overtaken :
        (th[p[1]].op = "InvalidateByPattern" /\ th[p[1]].pc = "done") =>
            th[p[2]].key \notin DOMAIN heap[th[p[2]].cache].data


\* C32: the tool catalog only lists tools of connected servers: in every
\* state, each descriptor GetAvailableTools would return names a server that
\* is marked connected, also after Disconnect and DisconnectAll.
C32_CatalogOfConnectedServers ==
    \A k \in DOMAIN tools : tools[k].ServerName \in connected


\* C33: once every running RefreshTools call has completed, calls that ran
\* concurrently with each other included, the catalog holds each
\* (tool name, server name) descriptor at most once.
C33_NoDuplicateDescriptors ==
    (Refreshing = {}) =>
        \A j, k \in DOMAIN tools : tools[j] = tools[k] => j = k


\* the closing brace that matches the opening brace at the start of part: the
\* first one at which as many braces have been closed as opened
MatchingBrace(part) ==
    CHOOSE e \in 1..Len(part) :
        /\ part[e] = 125
        /\ CountUpTo(part, e, 123) = CountUpTo(part, e, 125)
        /\ \A d \in 1..(e - 1) :
              ~(part[d] = 125 /\ CountUpTo(part, d, 123) = CountUpTo(part, d, 125))

\* the invocation decoded from jsonStr as the parser appends it: an empty
\* mapping is dropped
Appended(jsonStr) ==
    IF DOMAIN ParseToolCallJSON(jsonStr) # {} THEN <<ParseToolCallJSON(jsonStr)>> ELSE <<>>

\* C34: for a marker segment that starts with '{', the parser extracts the
\* text from that brace up to and including its matching closing brace, found
\* by counting brace depth, and decodes exactly that text: a nested object is
\* taken whole and what follows the matching brace is left out.
C34_ExtractsUpToMatchingBrace ==
    [][(/\ pl.phase = "loop"
        /\ pl.i <= Len(pl.parts)
        /\ pl'.phase = "loop"
        /\ HasPrefix(pl.parts[pl.i], <<123>>)
        /\ HasBalancingBrace(pl.parts[pl.i]))
       => pl'.toolCalls = pl.toolCalls \o
              Appended(SubSeq(pl.parts[pl.i], 1, MatchingBrace(pl.parts[pl.i])))]_vars

\* an object with a nested args object, followed by more text, was parsed and
\* returned whole
C34_Witness ==
    /\ pl.phase = "done"
    /\ pl.content = Marker \o ObjSearch \o Plain \o ObjEmpty
    /\ pl.toolCalls = <<Unmarshal(ObjSearch).val>>
    /\ ArgsKey \in DOMAIN pl.toolCalls[1]


\* the mapping with the single entry k -> v
Entry(k, v) == MapSet(<<>>, k, v)

\* what {name:a,args:{q:x,r:y}} stands for: a name and an args mapping of two
\* entries
LooseArgsCall ==
    MapSet(Entry(<<110, 97, 109, 101>>, JString(<<97>>)), ArgsKey,
           JObject(MapSet(Entry(<<113>>, JString(<<120>>)), <<114>>, JString(<<121>>))))

\* C35: when strict decoding fails, the permissive decoder splits only on
\* top-level commas: a segment {name:a,args:{q:x,r:y}} gives one invocation
\* named a whose args is the mapping of both entries of the brace-delimited
\* value.
C35_NestedArgsDecodedWhole ==
    [][(/\ pl.phase = "loop"
        /\ pl.i <= Len(pl.parts)
        /\ pl'.phase = "loop"
        /\ HasPrefix(pl.parts[pl.i], ObjLooseArgs))
       => pl'.toolCalls = pl.toolCalls \o <<LooseArgsCall>>]_vars


\* thread t completes a Get of the cache in this step and it is a hit
GetHits(t) ==
    /\ th[t].op = "Get"
    /\ th[t].pc = "get_body"
    /\ th'[t].pc = "done"
    /\ th'[t].err = "none"

\* C36: each cache hit on an entry increments that entry's accessCount by
\* one, so that after Set and k successful Gets of the key the count is k.
C36_HitIncrementsAccessCount ==
    [][\A t \in Threads :
          GetHits(t) =>
              /\ th[t].key \in DOMAIN heap'[th[t].cache].data
              /\ heap'[th[t].cache].data[th[t].key].AccessCount =
                     heap[th[t].cache].data[th[t].key].AccessCount + 1]_vars


\* thread t runs Cleanup on the cache in this step
CleansUp(t) ==
    /\ th[t].pc = "idle"
    /\ th'[t].pc = "done"
    /\ th'[t].op = "Cleanup"

\* C37: Cleanup removes from the cache exactly the entries whose age exceeds
\* their ttl and leaves every other entry as it was; no expired entry remains
\* after it.
C37_CleanupRemovesExactlyExpired ==
    [][\A t \in Threads :
          CleansUp(t) =>
              LET before == heap[th'[t].cache].data
                  after  == heap'[th'[t].cache].data
              IN  /\ DOMAIN after = { k \in DOMAIN before : ~Expired(before[k], now) }
                  /\ \A k \in DOMAIN after : after[k] = before[k]
                  /\ \A k \in DOMAIN after : ~Expired(after[k], now')]_vars

\* a Cleanup has removed an expired entry, and the cache holds an entry
C37_Witness ==
    \E t \in Threads :
        /\ th[t].op = "Cleanup"
        /\ th[t].pc = "done"
        /\ th[t].wiped # {}
        /\ heap[1].data # <<>>


\* thread t's call of InitializeMCP has returned
Initialized(t) == th[t].op = "InitializeMCP" /\ th[t].pc = "done"

C38_WitnessRead ==
    /\ gi.shutdowns = 0
    /\ Initialized("t1")
    /\ th["t2"].op = "GetMCPManager" /\ th["t2"].pc = "done"
    /\ th["t2"].res = NewManager(1)


\* C39: Register rejects a nil tool, a tool with an empty name and a tool
\* whose name is already registered, each with an error and without changing
\* the registry; any other tool is registered under its name.  Hence a
\* registered name keeps the first tool registered under it, and List gives
\* each registered name exactly once.
C39_RegisterRejectsAndKeepsFirst ==
    [][/\ rg'.op = "Register" =>
            IF \/ rg'.tool = NilTool
               \/ rg'.tool.name = <<>>
               \/ rg'.tool.name \in DOMAIN rg.tools
            THEN rg'.err # "none" /\ rg'.tools = rg.tools
            ELSE /\ rg'.err = "none"
                 /\ DOMAIN rg'.tools = DOMAIN rg.tools \cup {rg'.tool.name}
                 /\ rg'.tools[rg'.tool.name] = rg'.tool
       /\ \A name \in DOMAIN rg.tools :
            name \in DOMAIN rg'.tools /\ rg'.tools[name] = rg.tools[name]
       /\ rg'.op = "List" =>
            /\ { rg'.res[j] : j \in DOMAIN rg'.res } = DOMAIN rg.tools
            /\ \A j, k \in DOMAIN rg'.res : rg'.res[j] = rg'.res[k] => j = k]_vars

\* a second tool with a registered name was rejected and the first one kept
C39_Witness ==
    /\ rg.op = "Register"
    /\ rg.err = "already registered"
    /\ rg.tool.name \in DOMAIN rg.tools
    /\ rg.tools[rg.tool.name] # rg.tool
    /\ Cardinality(DOMAIN rg.tools) = 2


\* C40: Run executes the non-nil sub-agents in the order given at
\* construction, each on a clone of the state the previous one produced, the
\* first on a clone of the initial state, and on success returns the last
\* sub-agent's output: the returned state carries what every sub-agent wrote,
\* in order, and the initial state and each intermediate output are left as
\* they were.  With no sub-agents Run returns the initial state, untouched,
\* and no error.
C40_RunsInOrderOnClones ==
    /\ { sq.agents[k] : k \in DOMAIN sq.agents } = { sq.given[k] : k \in DOMAIN sq.given } \ {0}
    /\ \A j, k \in DOMAIN sq.agents : j < k => sq.agents[j] < sq.agents[k]
    /\ sq.ran = SubSeq(sq.agents, 1, Len(sq.ran))
    /\ (sq.pc = "done" /\ sq.agents = <<>>) =>
            /\ sq.ret = sq.initialState
            /\ sq.err = "none"
            /\ sq.ran = <<>>
            /\ sq.objs = << <<>> >>
    /\ (sq.pc = "done" /\ sq.err = "none") =>
            /\ sq.ran = sq.agents
            /\ sq.objs[sq.ret] = sq.agents
            /\ sq.objs[sq.initialState] = <<>>
            /\ \A k \in 0..Len(sq.agents) :
                  \E o \in DOMAIN sq.objs : sq.objs[o] = SubSeq(sq.agents, 1, k)

\* three sub-agents were given with a nil one among them; Run succeeded with
\* the two others
C40_Witness ==
    /\ sq.pc = "done"
    /\ sq.err = "none"
    /\ sq.given = <<1, 0, 3>>
    /\ sq.ran = <<1, 3>>
    /\ sq.objs[sq.ret] = <<1, 3>>

====
